---- MODULE Spec2Model ----
(***************************************************************************)
(* A model of the ai_search_demo file search service: the file registry    *)
(* (src/registry.rs), the tag cache (src/cache.rs), the SearchEngine index *)
(* operations (src/engine/core.rs), the indexing pipeline of the binary    *)
(* (src/indexer.rs) and the start-up protocol of src/main.rs.              *)
(***************************************************************************)
EXTENDS Integers, Sequences, FiniteSets, TLC

(***************************************************************************)
(* Bounds of the model.                                                    *)
(***************************************************************************)
\* mtimes and the clock range over 1..MaxTime (seconds since the epoch)
MaxTime == 2
\* the ghost counter of outstanding grants saturates here
MaxOutstanding == 2
\* the channel of notify events holds at most this many
MaxQueue == 1
\* the calls of set_keywords and remove that one history of the cache keeps
MaxLog == 3

(***************************************************************************)
(* Files, paths and callers.                                               *)
(*                                                                         *)
(* A file is named by its canonical absolute path.  The same file can be   *)
(* reached through other spellings: WATCH_PATH is "./docs" by default      *)
(* (src/config.rs:191), so the scanner walks "./docs/a.txt" while the      *)
(* index is keyed by the canonicalized "/cwd/docs/a.txt".  A path is a     *)
(* pair (form, file); the form "canon" is the canonical spelling and the   *)
(* form "raw" any other spelling of the same file.                         *)
(***************************************************************************)
Files == {"a", "b"}
Forms == {"canon", "raw"}
Paths == [form : Forms, file : Files]
Times == 1..MaxTime
Workers == {"w1", "w2"}
\* the files each program is run on
FilesOf(prog) == IF prog = "engine" THEN {"a"} ELSE Files
PathsOf(prog) == {p \in Paths : p.file \in FilesOf(prog)}

CanonPath(f) == [form |-> "canon", file |-> f]
RawPath(f) == [form |-> "raw", file |-> f]
\* The registry keeps one independent entry per key; the two specifications
\* of the registry interface call it with the two spellings of one file.
RegistryKeys == {p \in Paths : p.file = "a"}

VARIABLES
    \* ---- FileRegistry (src/registry.rs:26-33)
    files,            \* RegistryInner.files : path -> FileState (partial)
    scan_completed,   \* RegistryInner.scan_completed
    pending_events,   \* RegistryInner.pending_events
    \* ---- history of the registry's callers (not program state)
    holders,          \* path -> callers granted and not yet finished
    outstanding,      \* path -> grants since the last finish_processing(path)
    \* ---- environment
    now,              \* SystemTime::now(), in seconds
    fs,               \* the watched directory: file -> Absent or [mtime, content]
    \* ---- the tantivy index and the sled cache
    program,          \* "engine" (SearchEngine) or "pipeline" (src/main.rs)
    segments,         \* committed segments: each a sequence of [doc, alive]
    writer,           \* operations buffered in SearchEngine.writer, not committed
    searcher,         \* the segments SearchEngine.reader last loaded
    tagCache,         \* EmbeddingCache: key path -> [content_hash, keywords]
    fileMeta,         \* EmbeddingCache, keys "meta:" + path -> FileMetaEntry
    \* ---- history of the calls of the cache (not program state)
    log,              \* the set_keywords and remove calls made, in order
    \* ---- the query parser (src/query/parser.rs)
    input,            \* the pieces of the query string, each a sequence of characters
    build,            \* "debug": arithmetic overflow panics; "release": it wraps
    parsed,           \* what QueryParser::parse returned for input
    \* ---- the query side (src/query/filter.rs, src/engine/core.rs:94-187)
    request,          \* the arguments of the query operation called last
    response,         \* what that operation returned
    \* ---- history of the index operations (not program state)
    ret,              \* the last index operation that returned, while nothing
                      \* but the clock, the reader and merges moved since
    \* ---- the start of the binary (src/main.rs, src/indexer.rs)
    mainPc,           \* where the main thread is
    watcherPc,        \* where the watcher thread is
    rx,               \* the channel of notify events the watcher reads
    signal,           \* the scan-complete channel holds a message
    visited,          \* the files the scanner's walk has come to
    drained,          \* what complete_scan returned to the watcher
    \* ---- history of the start (not program state)
    duringScan,       \* the events the watcher received before the signal
    \* ---- concurrent calls of the engine (src/engine/core.rs:190-254)
    threads,          \* thread -> the index_file or delete_file call it is in
    lock              \* the thread holding SearchEngine.writer's RwLock, or Free

regVars == <<files, scan_completed, pending_events>>
histVars == <<holders, outstanding>>
idxVars == <<program, segments, writer, searcher, tagCache, ret>>
cacheVars == <<fileMeta, log>>
queryVars == <<input, build, parsed, request, response>>
startVars == <<mainPc, watcherPc, rx, signal, visited, drained, duringScan>>
lockVars == <<threads, lock>>
vars == <<files, scan_completed, pending_events, holders, outstanding, now, fs,
          program, segments, writer, searcher, tagCache, fileMeta, log, input, build, parsed,
          request, response, ret,
          mainPc, watcherPc, rx, signal, visited, drained, duringScan,
         threads, lock>>

(***************************************************************************)
(* FileRegistry                                                            *)
(***************************************************************************)
\* FileState (src/registry.rs:11-18)
FileState == [modified_time : Times, processed_time : Times, processing : BOOLEAN]

\* FileRegistry::new (src/registry.rs:50-58)
RegistryNew ==
    /\ files = <<>>
    /\ scan_completed = FALSE
    /\ pending_events = <<>>

\* try_start_processing without the check of the processing flag
TryStartGranted_NoProcessingCheck(fl, p, t) ==
    IF p \in DOMAIN fl
    THEN IF fl[p].modified_time >= t THEN FALSE ELSE TRUE
    ELSE TRUE

\* The value try_start_processing returns (src/registry.rs:65-86).
TryStartGranted(fl, p, t) ==
    IF p \in DOMAIN fl
    THEN IF fl[p].processing
         THEN FALSE
         ELSE IF fl[p].modified_time >= t
              THEN FALSE
              ELSE TRUE
    ELSE TRUE

\* try_start_processing without the update of the observed mtime
TryStartFiles_KeepMtime(fl, p, t, clock) ==
    IF p \in DOMAIN fl
    THEN IF TryStartGranted(fl, p, t)
         THEN [fl EXCEPT ![p].processing = TRUE]
         ELSE fl
    ELSE [q \in DOMAIN fl \cup {p} |->
            IF q = p
            THEN [modified_time |-> t, processed_time |-> clock, processing |-> TRUE]
            ELSE fl[q]]

\* The map try_start_processing leaves behind (src/registry.rs:65-86).
TryStartFiles(fl, p, t, clock) ==
    IF p \in DOMAIN fl
    THEN IF TryStartGranted(fl, p, t)
         THEN [fl EXCEPT ![p].processing = TRUE, ![p].modified_time = t]
         ELSE fl
    ELSE [q \in DOMAIN fl \cup {p} |->
            IF q = p
            THEN [modified_time |-> t, processed_time |-> clock, processing |-> TRUE]
            ELSE fl[q]]

\* finish_processing stamping the observed mtime instead of processed_time
FinishFiles_StampMtime(fl, p, clock) ==
    IF p \in DOMAIN fl
    THEN [fl EXCEPT ![p].processing = FALSE, ![p].modified_time = clock]
    ELSE fl

\* The map finish_processing leaves behind (src/registry.rs:90-96).
FinishFiles(fl, p, clock) ==
    IF p \in DOMAIN fl
    THEN [fl EXCEPT ![p].processing = FALSE, ![p].processed_time = clock]
    ELSE fl

\* mark_deleted keeping the entry and clearing its marker
MarkDeletedFiles_KeepEntry(fl, p) ==
    IF p \in DOMAIN fl THEN [fl EXCEPT ![p].processing = FALSE] ELSE fl

\* The map mark_deleted leaves behind (src/registry.rs:99-102).
MarkDeletedFiles(fl, p) == [q \in DOMAIN fl \ {p} |-> fl[q]]

Bump(n) == IF n < MaxOutstanding THEN n + 1 ELSE n

\* Caller w calls try_start_processing(p, t); the whole call runs under the
\* registry's write lock.
try_start_processing(w, p, t) ==
    /\ files' = TryStartFiles(files, p, t, now)
    /\ IF TryStartGranted(files, p, t)
       THEN /\ holders' = [holders EXCEPT ![p] = @ \cup {w}]
            /\ outstanding' = [outstanding EXCEPT ![p] = Bump(@)]
       ELSE UNCHANGED histVars
    /\ UNCHANGED <<lockVars, queryVars, cacheVars, startVars, scan_completed, pending_events, now, fs, idxVars>>

\* Caller w calls finish_processing(p).
finish_processing(w, p) ==
    /\ files' = FinishFiles(files, p, now)
    /\ holders' = [holders EXCEPT ![p] = @ \ {w}]
    /\ outstanding' = [outstanding EXCEPT ![p] = 0]
    /\ UNCHANGED <<lockVars, queryVars, cacheVars, startVars, scan_completed, pending_events, now, fs, idxVars>>

\* Some caller calls mark_deleted(p).
mark_deleted(p) ==
    /\ files' = MarkDeletedFiles(files, p)
    /\ UNCHANGED <<lockVars, queryVars, cacheVars, startVars, scan_completed, pending_events, holders, outstanding, now, fs, idxVars>>

\* The clock advances.
Tick ==
    /\ now < MaxTime
    /\ now' = now + 1
    /\ UNCHANGED <<lockVars, queryVars, cacheVars, startVars, regVars, histVars, fs, idxVars>>

(***************************************************************************)
(* The file system                                                         *)
(***************************************************************************)
Contents == {"x", "y"}
Absent == [exists |-> FALSE]
FileOf(t, c) == [exists |-> TRUE, mtime |-> t, content |-> c]
\* what the environment writes: file "a" is rewritten with any content at any
\* time, file "b" has one version that is removed and written again
Versions(f) == IF f = "a" THEN Contents \X Times ELSE {<<"x", 1>>}

\* Path::exists (src/engine/core.rs:193, src/indexer.rs:221, 445)
PathExists(fsys, p) == fsys[p.file].exists

\* path.canonicalize().unwrap_or_else(|_| path.to_path_buf())
\* (src/schema/document.rs:46, src/extract.rs:28-29, src/indexer.rs:116-117):
\* canonicalize fails on a path that does not exist.
Canonicalize(fsys, p) == IF fsys[p.file].exists THEN CanonPath(p.file) ELSE p

\* metadata.len() of a file with the given content
FileSize(c) == IF c = "x" THEN 1 ELSE 2

\* BertModel::extract_keywords / KeywordExtractor::extract: the tags of a text
\* (src/ai.rs:105-141, 166-168)
extract_keywords(c) == IF c = "x" THEN <<"kx">> ELSE <<"ky">>

\* EmbeddingCache::hash_content (src/cache.rs:87-91)
hash_content(c) == IF c = "x" THEN 11 ELSE 12

(***************************************************************************)
(* The tantivy index: committed segments, each the sequence of its         *)
(* documents in doc-id order with the alive bit of each; delete_term and   *)
(* add_document are buffered in the writer until commit.                   *)
(***************************************************************************)
NoRet == [op |-> "none"]

OpDelete(term) == [op |-> "delete", term |-> term]
OpAdd(d) == [op |-> "add", doc |-> d]

\* delete_term on one segment: every document with that path term dies
SegDeleteTerm(seg, term) ==
    [i \in 1..Len(seg) |->
        IF seg[i].doc.path = term THEN [seg[i] EXCEPT !.alive = FALSE] ELSE seg[i]]

\* SegmentReader::num_docs: the number of alive documents of a segment
num_docs(seg) == Cardinality({i \in 1..Len(seg) : seg[i].alive})

\* segments left without an alive document are removed from the index
DropEmpty(segs) == SelectSeq(segs, LAMBDA s : num_docs(s) > 0)

\* IndexWriter::commit: the buffered operations take effect in order; a
\* delete reaches the committed documents and the documents added before it,
\* and the added documents form a new segment.
RECURSIVE ApplyOps(_, _, _)
ApplyOps(segs, fresh, ops) ==
    IF ops = <<>>
    THEN DropEmpty(Append(segs, fresh))
    ELSE LET o == Head(ops) IN
         IF o.op = "delete"
         THEN ApplyOps([i \in 1..Len(segs) |-> SegDeleteTerm(segs[i], o.term)],
                       SegDeleteTerm(fresh, o.term), Tail(ops))
         ELSE ApplyOps(segs, Append(fresh, [doc |-> o.doc, alive |-> TRUE]), Tail(ops))

Commit(segs, ops) == ApplyOps(segs, <<>>, ops)

\* a commit whose buffered operations are delete_term for each of the terms
DeleteTerms(segs, terms) ==
    DropEmpty([s \in 1..Len(segs) |->
        [i \in 1..Len(segs[s]) |->
            IF segs[s][i].doc.path \in terms
            THEN [segs[s][i] EXCEPT !.alive = FALSE] ELSE segs[s][i]]])

\* the alive documents of a sequence of segments, in order
RECURSIVE AliveEntries(_)
AliveEntries(segs) ==
    IF segs = <<>> THEN <<>>
    ELSE SelectSeq(Head(segs), LAMBDA e : e.alive) \o AliveEntries(Tail(segs))

\* a merge replaces the segments by one segment of their alive documents
\* (the writer's merge policy, src/indexer.rs:181, src/engine/builder.rs:98)
MergeSegments(segs) == IF segs = <<>> THEN <<>> ELSE <<AliveEntries(segs)>>

\* the live documents a searcher over these segments sees
LiveDocs(segs) == {AliveEntries(segs)[i].doc : i \in 1..Len(AliveEntries(segs))}

\* the number of live documents whose path term is p
LiveCount(segs, p) ==
    Len(SelectSeq(AliveEntries(segs), LAMBDA e : e.doc.path = p))

\* SearchEngine::is_indexed (src/engine/core.rs:257-269): a term count on the
\* engine's reader, with the path as given
is_indexed(srch, p) == LiveCount(srch, p) > 0

(***************************************************************************)
(* SearchEngine (src/engine/core.rs)                                       *)
(***************************************************************************)
\* a document whose modified_time is the time of indexing
EngineDoc_IndexTimeAsMtime(fsys, p, clock) ==
    [path |-> Canonicalize(fsys, p),
     body |-> fsys[p.file].content,
     tags |-> extract_keywords(fsys[p.file].content),
     file_size |-> FileSize(fsys[p.file].content),
     modified_time |-> clock,
     indexed_time |-> clock]

\* FileMetadata::from_path and IndexDocument::new for the file at p
\* (src/schema/document.rs:44-89, src/engine/core.rs:198-216)
EngineDoc(fsys, p, clock) ==
    [path |-> Canonicalize(fsys, p),
     body |-> fsys[p.file].content,
     tags |-> extract_keywords(fsys[p.file].content),
     file_size |-> FileSize(fsys[p.file].content),
     modified_time |-> fsys[p.file].mtime,
     indexed_time |-> clock]

\* an upsert that does not delete the old document
UpsertOps_NoDelete(d) == <<OpAdd(d)>>

\* an upsert whose delete_term is built from the path as given, not from the
\* stored one
UpsertOps_DeleteRaw(d) == <<OpDelete(RawPath(d.path.file)), OpAdd(d)>>

\* what index_file and process_and_index buffer in the writer: delete the old
\* document by its path term, then add the new one
\* (src/engine/core.rs:226-230, src/indexer.rs:184-194)
UpsertOps(d) == <<OpDelete(d.path), OpAdd(d)>>

\* the stored modification time of a document: the field modified_time of
\* the engine's schema, timestamp of the pipeline's (src/indexer.rs:36)
DocTime(d) == IF "modified_time" \in DOMAIN d THEN d.modified_time ELSE d.timestamp

\* two documents of the same version of the same file
SameFileVersion(d, e) ==
    /\ e.path = d.path
    /\ e.body = d.body
    /\ DocTime(e) = DocTime(d)

\* the committed segments after a successful index_file(p): the operations a
\* failed call left in the writer are committed with it
\* (src/engine/core.rs:222-232)
EngineIndexed(segs, pending, fsys, p, clock) ==
    Commit(segs, pending \o UpsertOps(EngineDoc(fsys, p, clock)))

\* the committed segments after a successful delete_file(p): the term is the
\* path as given (src/engine/core.rs:245-254)
EngineDeleted(segs, pending, p) == Commit(segs, Append(pending, OpDelete(p)))

\* index_file (src/engine/core.rs:190-242).  outcome "add_err": add_document
\* answers Err and the call returns with its delete_term buffered in the
\* writer (one failed call at a time is followed).
\* ret records the call: the path given, the document written, the mtime the
\* file had, whether the live document was of another version of the file
\* (changed), whether the call comes straight after a successful index_file
\* of the same version of the same file (repeat), and whether the reader
\* has loaded a commit since (reloaded).
index_file(p, outcome) ==
    /\ program = "engine"
    /\ IF ~PathExists(fs, p)
       THEN /\ UNCHANGED <<segments, writer>>
            /\ ret' = [op |-> "index_file", ok |-> FALSE, arg |-> p]
       ELSE LET d == EngineDoc(fs, p, now) IN
            CASE outcome = "ok" ->
                   /\ segments' = EngineIndexed(segments, writer, fs, p, now)
                   /\ writer' = <<>>
                   /\ ret' = [op |-> "index_file", ok |-> TRUE, arg |-> p,
                              doc |-> d,
                              mtime |-> fs[p.file].mtime,
                              changed |-> ~ \E e \in LiveDocs(segments) :
                                              SameFileVersion(d, e),
                              repeat |-> /\ ret.op = "index_file"
                                         /\ ret.ok
                                         /\ SameFileVersion(d, ret.doc),
                              reloaded |-> FALSE]
              [] outcome = "add_err" ->
                   /\ writer = <<>>
                   /\ segments' = segments
                   /\ writer' = <<OpDelete(d.path)>>
                   /\ ret' = [op |-> "index_file", ok |-> FALSE, arg |-> p]
    /\ UNCHANGED <<lockVars, queryVars, cacheVars, startVars, regVars, histVars, now, fs, program, searcher, tagCache>>

\* delete_file (src/engine/core.rs:245-254)
delete_file(p, commit_ok) ==
    /\ program = "engine"
    /\ IF commit_ok
       THEN /\ segments' = EngineDeleted(segments, writer, p)
            /\ writer' = <<>>
       ELSE /\ writer = <<>>
            /\ segments' = segments
            /\ writer' = <<OpDelete(p)>>
    /\ ret' = [op |-> "delete_file", ok |-> commit_ok, arg |-> p]
    /\ UNCHANGED <<lockVars, queryVars, cacheVars, startVars, regVars, histVars, now, fs, program, searcher, tagCache>>

\* The engine's reader (ReloadPolicy::OnCommitWithDelay,
\* src/engine/builder.rs:101-104) loads the committed segments some time after
\* a commit.
ReaderReload ==
    /\ program = "engine"
    /\ searcher # segments
    /\ searcher' = segments
    /\ ret' = IF ret.op = "index_file" /\ ret.ok
              THEN [ret EXCEPT !.reloaded = TRUE] ELSE ret
    /\ UNCHANGED <<lockVars, queryVars, cacheVars, startVars, regVars, histVars, now, fs, program, segments, writer, tagCache>>

\* The writer's merge policy merges committed segments in the background.
Merge ==
    /\ Len(segments) > 1
    /\ segments' = MergeSegments(segments)
    /\ UNCHANGED <<lockVars, queryVars, cacheVars, startVars, regVars, histVars, now, fs, program, writer, searcher, tagCache, ret>>

(***************************************************************************)
(* The indexing pipeline of the binary (src/indexer.rs, src/cache.rs)      *)
(***************************************************************************)
\* a lookup that does not compare the content hash
CacheHit_AnyContent(cache, key, c) == key \in DOMAIN cache

\* EmbeddingCache::get_keywords answers Some (src/cache.rs:96-107)
CacheHit(cache, key, c) ==
    key \in DOMAIN cache /\ cache[key].content_hash = hash_content(c)

\* EmbeddingCache::set_keywords (src/cache.rs:110-120)
set_keywords(cache, key, c, kw) ==
    [k \in DOMAIN cache \cup {key} |->
        IF k = key THEN [content_hash |-> hash_content(c), keywords |-> kw]
        ELSE cache[k]]

\* EmbeddingCache::remove, for each of the keys (src/cache.rs:123-127)
CacheRemove(cache, keys) == [k \in DOMAIN cache \ keys |-> cache[k]]

\* the keywords process_and_index uses: the cached ones on a hit, else those
\* of the model (src/indexer.rs:161-171)
PipelineKeywords(cache, fsys, p) ==
    IF CacheHit(cache, Canonicalize(fsys, p), fsys[p.file].content)
    THEN cache[Canonicalize(fsys, p)].keywords
    ELSE extract_keywords(fsys[p.file].content)

\* a document keyed by the path as given
PipelineDoc_RawPath(cache, fsys, p) ==
    [path |-> p,
     body |-> fsys[p.file].content,
     tags |-> PipelineKeywords(cache, fsys, p),
     timestamp |-> fsys[p.file].mtime]

\* the document process_and_index adds (src/indexer.rs:151-159, 188-194;
\* src/extract.rs:22-37)
PipelineDoc(cache, fsys, p) ==
    [path |-> Canonicalize(fsys, p),
     body |-> fsys[p.file].content,
     tags |-> PipelineKeywords(cache, fsys, p),
     timestamp |-> fsys[p.file].mtime]

\* a cache that keeps the entry a path already has
PipelineCached_KeepOld(cache, fsys, p) ==
    IF Canonicalize(fsys, p) \in DOMAIN cache
    THEN cache
    ELSE set_keywords(cache, Canonicalize(fsys, p), fsys[p.file].content,
                      extract_keywords(fsys[p.file].content))

\* a cache keyed by the path as given
PipelineCached_RawKey(cache, fsys, p) ==
    IF CacheHit(cache, p, fsys[p.file].content)
    THEN cache
    ELSE set_keywords(cache, p, fsys[p.file].content,
                      extract_keywords(fsys[p.file].content))

\* the cache after process_and_index got its keywords (src/indexer.rs:161-171)
PipelineCached(cache, fsys, p) ==
    IF CacheHit(cache, Canonicalize(fsys, p), fsys[p.file].content)
    THEN cache
    ELSE set_keywords(cache, Canonicalize(fsys, p), fsys[p.file].content,
                      extract_keywords(fsys[p.file].content))

\* the committed segments after a successful process_and_index(p): a writer of
\* its own, delete_term, add_document, commit (src/indexer.rs:181-196)
PipelineIndexed(segs, cache, fsys, p) == Commit(segs, UpsertOps(PipelineDoc(cache, fsys, p)))

\* process_and_index (src/indexer.rs:148-203).  outcome "ai_err":
\* extract_keywords answers Err; "cache_err": set_keywords answers Err, which
\* is dropped (src/indexer.rs:168); "write_err": index.writer, add_document
\* or commit answers Err, and the writer is dropped with what it buffered.
process_and_index(p, outcome) ==
    /\ program = "pipeline"
    /\ IF ~PathExists(fs, p)
       THEN /\ UNCHANGED <<segments, tagCache>>
            /\ ret' = [op |-> "process_and_index", ok |-> FALSE, arg |-> p]
       ELSE IF outcome = "ai_err"
                 /\ ~CacheHit(tagCache, Canonicalize(fs, p), fs[p.file].content)
            THEN /\ UNCHANGED <<segments, tagCache>>
                 /\ ret' = [op |-> "process_and_index", ok |-> FALSE, arg |-> p]
            ELSE /\ tagCache' = IF outcome = "cache_err" THEN tagCache
                                ELSE PipelineCached(tagCache, fs, p)
                 /\ IF outcome = "write_err"
                    THEN /\ segments' = segments
                         /\ ret' = [op |-> "process_and_index", ok |-> FALSE,
                                    arg |-> p]
                    ELSE /\ segments' = PipelineIndexed(segments, tagCache, fs, p)
                         /\ ret' = [op |-> "process_and_index", ok |-> TRUE,
                                    arg |-> p,
                                    doc |-> PipelineDoc(tagCache, fs, p),
                                    outcome |-> outcome,
                                    hit |-> CacheHit(tagCache, Canonicalize(fs, p),
                                                     fs[p.file].content),
                                    repeat |->
                                        /\ ret.op = "process_and_index"
                                        /\ ret.ok
                                        /\ SameFileVersion(PipelineDoc(tagCache, fs, p),
                                                           ret.doc)]
    /\ UNCHANGED <<lockVars, queryVars, cacheVars, startVars, regVars, histVars, now, fs, program, writer, searcher>>

\* the terms delete_from_index deletes: the canonicalized path, or the path
\* as given when canonicalize fails, and the path as given
\* (src/indexer.rs:116-133)
DeleteTermsOf(fsys, p) == {Canonicalize(fsys, p), p}

\* delete_from_index (src/indexer.rs:114-145)
delete_from_index(p, write_ok) ==
    /\ program = "pipeline"
    /\ IF write_ok
       THEN /\ segments' = DeleteTerms(segments, DeleteTermsOf(fs, p))
            /\ tagCache' = CacheRemove(tagCache, DeleteTermsOf(fs, p))
       ELSE UNCHANGED <<segments, tagCache>>
    /\ ret' = [op |-> "delete_from_index", ok |-> write_ok, arg |-> p]
    /\ UNCHANGED <<lockVars, queryVars, cacheVars, startVars, regVars, histVars, now, fs, program, writer, searcher>>

\* the paths cleanup_orphan_indexes collects (src/indexer.rs:213-229): in
\* every segment it reads the stored documents with doc ids 0..num_docs and
\* keeps the paths that do not exist
OrphanPaths(segs, fsys) ==
    UNION {{segs[s][i].doc.path : i \in {j \in 1..num_docs(segs[s]) :
                                          ~PathExists(fsys, segs[s][j].doc.path)}} :
           s \in 1..Len(segs)}

\* the committed segments after a successful cleanup_orphan_indexes
\* (src/indexer.rs:233-243)
Swept(segs, fsys) == DeleteTerms(segs, OrphanPaths(segs, fsys))

\* cleanup_orphan_indexes (src/indexer.rs:206-246).  outcome "writer_err":
\* index.writer answers Err; "commit_err": commit answers Err, after the cache
\* entries were removed.
cleanup_orphan_indexes(outcome) ==
    /\ program = "pipeline"
    /\ CASE outcome = "ok" ->
              /\ segments' = Swept(segments, fs)
              /\ tagCache' = CacheRemove(tagCache, OrphanPaths(segments, fs))
              /\ ret' = [op |-> "cleanup_orphan_indexes", ok |-> TRUE]
         [] outcome = "writer_err" ->
              /\ OrphanPaths(segments, fs) # {}
              /\ UNCHANGED <<segments, tagCache>>
              /\ ret' = [op |-> "cleanup_orphan_indexes", ok |-> FALSE]
         [] outcome = "commit_err" ->
              /\ OrphanPaths(segments, fs) # {}
              /\ segments' = segments
              /\ tagCache' = CacheRemove(tagCache, OrphanPaths(segments, fs))
              /\ ret' = [op |-> "cleanup_orphan_indexes", ok |-> FALSE]
    /\ UNCHANGED <<lockVars, queryVars, cacheVars, startVars, regVars, histVars, now, fs, program, writer, searcher>>

(***************************************************************************)
(* The environment: files are written and removed                          *)
(***************************************************************************)
WriteFile(f, c, t) ==
    /\ fs[f] # FileOf(t, c)
    /\ fs' = [fs EXCEPT ![f] = FileOf(t, c)]
    /\ ret' = NoRet
    /\ UNCHANGED <<lockVars, queryVars, cacheVars, startVars, regVars, histVars, now, program, segments, writer, searcher,
                   tagCache>>

RemoveFile(f) ==
    /\ fs[f].exists
    /\ fs' = [fs EXCEPT ![f] = Absent]
    /\ ret' = NoRet
    /\ UNCHANGED <<lockVars, queryVars, cacheVars, startVars, regVars, histVars, now, program, segments, writer, searcher,
                   tagCache>>

\* an empty index and an empty cache; nothing is in progress
IndexEmpty ==
    /\ segments = <<>>
    /\ writer = <<>>
    /\ searcher = <<>>
    /\ tagCache = <<>>
    /\ fileMeta = <<>>
    /\ log = <<>>
    /\ ret = NoRet

\* no query has been read
NoParse == [kind |-> "none"]
\* no query operation has been called
NoCall == [op |-> "none"]
NoQuery ==
    /\ input = <<>> /\ build = "release" /\ parsed = NoParse
    /\ request = NoCall /\ response = NoCall

\* the binary is not running
NotStarted ==
    /\ mainPc = "off"
    /\ watcherPc = "off"
    /\ rx = <<>>
    /\ signal = FALSE
    /\ visited = {}
    /\ drained = <<>>
    /\ duringScan = <<>>


\* no thread is inside index_file or delete_file, and nobody holds the lock
\* around the writer (src/engine/builder.rs builds it unlocked)
Free == "free"
Idle == [op |-> "none", pc |-> "idle"]
EngineThreads == {"e1", "e2"}
NoCalls ==
    /\ threads = [t \in EngineThreads |-> Idle]
    /\ lock = Free

HistInit ==
    /\ holders = [p \in Paths |-> {}]
    /\ outstanding = [p \in Paths |-> 0]

(***************************************************************************)
(* SpecTry: any number of callers interleave try_start_processing and      *)
(* finish_processing on the registry.                                      *)
(***************************************************************************)
InitRegistry ==
    /\ RegistryNew
    /\ HistInit
    /\ NoCalls
    /\ now = 1
    /\ fs = [f \in Files |-> Absent]
    /\ program = "pipeline"
    /\ IndexEmpty
    /\ NotStarted
    /\ NoQuery

NextTry ==
    \/ \E w \in Workers, p \in RegistryKeys, t \in Times : try_start_processing(w, p, t)
    \/ \E w \in Workers, p \in RegistryKeys : finish_processing(w, p)
    \/ Tick

SpecTry == InitRegistry /\ [][NextTry]_vars

(***************************************************************************)
(* SpecRegistry: the callers use the registry as the scanner and the       *)
(* watcher do: finish_processing(p) is called by a caller that was granted *)
(* p (src/indexer.rs:394-402, 462-474); mark_deleted(p) is called without  *)
(* a grant (src/indexer.rs:448, 522, 555, 565).                            *)
(***************************************************************************)
NextRegistry ==
    \/ \E w \in Workers, p \in RegistryKeys, t \in Times : try_start_processing(w, p, t)
    \/ \E p \in RegistryKeys : \E w \in holders[p] : finish_processing(w, p)
    \/ \E p \in RegistryKeys : mark_deleted(p)
    \/ Tick

SpecRegistry == InitRegistry /\ [][NextRegistry]_vars

(***************************************************************************)
(* SpecIndex: the index operations of one program, the engine             *)
(* (SearchEngine) or the pipeline of the binary, run in any order while    *)
(* files are written and removed.                                          *)
(***************************************************************************)
InitIndex ==
    /\ RegistryNew
    /\ HistInit
    /\ NoCalls
    /\ now = 1
    /\ fs = [f \in Files |-> Absent]
    /\ program \in {"engine", "pipeline"}
    /\ IndexEmpty
    /\ NotStarted
    /\ NoQuery

NextIndex ==
    \/ \E p \in PathsOf("engine"), o \in {"ok", "add_err"} : index_file(p, o)
    \/ \E p \in PathsOf("engine"), ok \in BOOLEAN : delete_file(p, ok)
    \/ ReaderReload
    \/ Merge
    \/ \E p \in Paths, o \in {"ok", "ai_err", "cache_err", "write_err"} :
          process_and_index(p, o)
    \/ \E p \in Paths, ok \in BOOLEAN : delete_from_index(p, ok)
    \/ \E o \in {"ok", "writer_err", "commit_err"} : cleanup_orphan_indexes(o)
    \/ \E f \in FilesOf(program) : \E v \in Versions(f) : WriteFile(f, v[1], v[2])
    \/ \E f \in FilesOf(program) : RemoveFile(f)
    \/ program = "engine" /\ Tick

SpecIndex == InitIndex /\ [][NextIndex]_vars

(***************************************************************************)
(* Properties of the index operations                                      *)
(***************************************************************************)
IndexOps == {"index_file", "process_and_index"}
DeleteOps == {"delete_file", "delete_from_index"}

\* the number of live documents of the file f, whatever the spelling of
\* their path
LiveOfFile(segs, f) ==
    Len(SelectSeq(AliveEntries(segs), LAMBDA e : e.doc.path.file = f))

\* the paths of the deleted documents still stored in the segments
DeadPaths(segs) ==
    UNION {{segs[s][i].doc.path : i \in {j \in 1..Len(segs[s]) : ~segs[s][j].alive}} :
           s \in 1..Len(segs)}

\* the number of tag-cache entries of the file f
CacheEntries(cache, f) == Cardinality({k \in DOMAIN cache : k.file = f})

\* a document without its time of indexing
Unstamped(d) ==
    IF "indexed_time" \in DOMAIN d
    THEN [x \in DOMAIN d \ {"indexed_time"} |-> d[x]]
    ELSE d

I1(segs) ==
    /\ \A f \in Files : LiveOfFile(segs, f) <= 1
    /\ \A d \in LiveDocs(segs) : d.path = CanonPath(d.path.file)

\* C3: Invariant I1: in every committed index state, and so in every state
\* a reader has loaded, there is at most one live document per file and its
\* path is the file's canonical path.
C3_OneCanonicalDocPerFile == I1(segments) /\ I1(searcher)

\* A file indexed through its other spelling has one live document, keyed by
\* its canonical path, next to the deleted document of its earlier version.
C3_Witness ==
    /\ ret.op \in IndexOps
    /\ ret.ok
    /\ ret.arg.form = "raw"
    /\ ret.doc.path \in DeadPaths(segments)
    /\ LiveOfFile(segments, ret.arg.file) = 1

\* C4: Upsert atomicity: when index_file or process_and_index replaces the
\* live document of a path, the committed state has exactly one document of
\* the path before and after the step, and a reader that showed exactly one
\* still shows exactly one.
C4_UpsertAtomic ==
    [][\A k \in Paths :
          (ret'.op \in IndexOps /\ ret'.ok /\ ret'.doc.path = k)
              => /\ LiveCount(segments, k) = 1 => LiveCount(segments', k) = 1
                 /\ LiveCount(searcher, k) = 1 => LiveCount(searcher', k) = 1]_vars

\* The reader still shows the old document of a path and the committed state
\* the new one.
C4_Witness ==
    /\ ret.op = "index_file"
    /\ ret.ok
    /\ LiveCount(searcher, ret.doc.path) = 1
    /\ LiveCount(segments, ret.doc.path) = 1
    /\ ret.doc \in LiveDocs(segments)
    /\ ret.doc \notin LiveDocs(searcher)

\* the documents of the file that index_file was called on are exactly one,
\* keyed by the canonical path and with the mtime the file had
ShowsIndexed(segs, r) ==
    /\ LiveOfFile(segs, r.arg.file) = 1
    /\ \A d \in LiveDocs(segs) :
          d.path.file = r.arg.file
              => d.path = CanonPath(r.arg.file) /\ d.modified_time = r.mtime

\* C5 as claimed: once index_file(p) on a changed file has returned Ok, the
\* engine's reader shows exactly one document with the canonical path and the
\* file's mtime.
C5_ReaderShowsOnReturn ==
    (ret.op = "index_file" /\ ret.ok /\ ret.changed) => ShowsIndexed(searcher, ret)

\* C5: once index_file(p) on a changed file has returned Ok, the committed
\* index holds exactly one document with the canonical path and the file's
\* mtime, and the engine's reader shows it once it has reloaded.
C5_CommittedOnReturn ==
    (ret.op = "index_file" /\ ret.ok /\ ret.changed)
        => /\ ShowsIndexed(segments, ret)
           /\ ret.reloaded => ShowsIndexed(searcher, ret)

\* index_file has returned Ok on a file whose older version was indexed, and
\* the reader, not yet reloaded, still shows the older version.
C5_Witness ==
    /\ ret.op = "index_file"
    /\ ret.ok
    /\ ret.changed
    /\ ~ret.reloaded
    /\ \E d \in LiveDocs(searcher) :
          d.path = ret.doc.path /\ d.modified_time # ret.mtime

\* the step is a second successful indexing, straight after the first, of a
\* file that did not change
SecondIndexing == ret'.op \in IndexOps /\ ret'.ok /\ ret'.repeat /\ ret' # ret

C7_DeleteComplete ==
    (ret.op \in DeleteOps /\ ret.ok)
        => /\ LiveCount(segments, CanonPath(ret.arg.file)) = 0
           /\ CacheEntries(tagCache, ret.arg.file) = 0
           /\ searcher = segments => ~is_indexed(searcher, ret.arg)

\* C8 as claimed: a cleanup_orphan_indexes that answers Ok leaves exactly the
\* live documents whose path exists.
C8_SweepExact ==
    [][(ret'.op = "cleanup_orphan_indexes" /\ ret'.ok /\ ret' # ret)
          => LiveDocs(segments') = {d \in LiveDocs(segments) : PathExists(fs, d.path)}]_vars

(***************************************************************************)
(* The start of the binary: main spawns the watcher thread, sweeps and     *)
(* scans the watched directory and signals the watcher (src/main.rs:43-62, *)
(* src/indexer.rs:249-274, 381-405, 436-579).  The scanner and the watcher *)
(* name files by their path under WATCH_PATH, the raw spelling.            *)
(***************************************************************************)
EventTypes == {"Create", "Modify", "Delete"}
EventOf(f, type) == [path |-> RawPath(f), event_type |-> type]

\* the registry, the index and the cache, as the scanner and the watcher
\* pass them along
StateOf(fl, segs, cache) == [files |-> fl, segments |-> segs, tagCache |-> cache]

\* should_index_file (src/indexer.rs:64-111): a term query with the path as
\* given, then the stored timestamp against the file's mtime
should_index_file(segs, fsys, p) ==
    \/ ~ \E d \in LiveDocs(segs) : d.path = p
    \/ \E d \in LiveDocs(segs) : d.path = p /\ fsys[p.file].mtime > d.timestamp

\* what process_and_index leaves of the index and the cache
PaiState(st, fsys, p, outcome) ==
    IF ~PathExists(fsys, p)
    THEN st
    ELSE IF outcome = "ai_err"
              /\ ~CacheHit(st.tagCache, Canonicalize(fsys, p), fsys[p.file].content)
         THEN st
         ELSE [st EXCEPT
                 !.tagCache = IF outcome = "cache_err" THEN @
                              ELSE PipelineCached(@, fsys, p),
                 !.segments = IF outcome = "write_err" THEN @
                              ELSE PipelineIndexed(@, st.tagCache, fsys, p)]

\* what delete_from_index leaves of the index and the cache
\* (src/indexer.rs:114-145)
DeletedState(st, fsys, p, outcome) ==
    IF outcome = "write_err"
    THEN st
    ELSE [st EXCEPT !.segments = DeleteTerms(@, DeleteTermsOf(fsys, p)),
                    !.tagCache = CacheRemove(@, DeleteTermsOf(fsys, p))]

\* a handler that returns on an indexing error without finish_processing
Processed_NoFinishOnError(st, fsys, p, outcome, clock, check) ==
    IF ~TryStartGranted(st.files, p, fsys[p.file].mtime)
    THEN [st EXCEPT !.files = TryStartFiles(@, p, fsys[p.file].mtime, clock)]
    ELSE LET idx == IF check /\ ~should_index_file(st.segments, fsys, p)
                    THEN st
                    ELSE PaiState(st, fsys, p, outcome)
             granted == TryStartFiles(st.files, p, fsys[p.file].mtime, clock)
         IN  [idx EXCEPT !.files =
                 IF outcome = "ok" THEN FinishFiles(granted, p, clock) ELSE granted]

\* try_start_processing, the indexing if it is granted, finish_processing
\* (src/indexer.rs:394-402, 462-474); check: should_index_file is asked first
Processed(st, fsys, p, outcome, clock, check) ==
    IF ~TryStartGranted(st.files, p, fsys[p.file].mtime)
    THEN [st EXCEPT !.files = TryStartFiles(@, p, fsys[p.file].mtime, clock)]
    ELSE LET idx == IF check /\ ~should_index_file(st.segments, fsys, p)
                    THEN st
                    ELSE PaiState(st, fsys, p, outcome)
         IN  [idx EXCEPT !.files =
                 FinishFiles(TryStartFiles(st.files, p, fsys[p.file].mtime, clock),
                             p, clock)]

\* process_file_entry (src/indexer.rs:381-405)
process_file_entry(st, fsys, p, outcome, clock) ==
    IF ~PathExists(fsys, p) THEN st
    ELSE Processed(st, fsys, p, outcome, clock, TRUE)

\* handle_file_event (src/indexer.rs:436-477)
handle_file_event(st, fsys, p, outcome, clock) ==
    IF ~PathExists(fsys, p)
    THEN IF outcome = "write_err"
         THEN st
         ELSE [DeletedState(st, fsys, p, outcome) EXCEPT
                  !.files = MarkDeletedFiles(@, p)]
    ELSE Processed(st, fsys, p, outcome, clock, FALSE)

\* delete_from_index, its answer dropped, then mark_deleted
\* (src/indexer.rs:521-522, 554-555, 564-565)
DeleteAndMark(st, fsys, p, outcome) ==
    [DeletedState(st, fsys, p, outcome) EXCEPT !.files = MarkDeletedFiles(@, p)]

\* one pending event of the drain loop (src/indexer.rs:515-525)
PendingEventHandled(st, fsys, ev, outcome, clock) ==
    IF ev.event_type = "Delete"
    THEN DeleteAndMark(st, fsys, ev.path, outcome)
    ELSE handle_file_event(st, fsys, ev.path, outcome, clock)

\* the drain loop over what complete_scan returned (src/indexer.rs:514-526)
RECURSIVE PendingEventsHandled(_, _, _, _, _)
PendingEventsHandled(st, fsys, evs, outcome, clock) ==
    IF evs = <<>> THEN st
    ELSE PendingEventsHandled(PendingEventHandled(st, fsys, Head(evs), outcome, clock),
                              fsys, Tail(evs), outcome, clock)

\* one event of the live loop (src/indexer.rs:529-571)
LiveEventHandled(st, fsys, ev, outcome, clock) ==
    IF ev.event_type = "Delete" \/ ~PathExists(fsys, ev.path)
    THEN DeleteAndMark(st, fsys, ev.path, outcome)
    ELSE handle_file_event(st, fsys, ev.path, outcome, clock)

Outcomes == {"ok", "ai_err", "cache_err", "write_err"}
startFrame == <<lockVars, holders, outstanding, now, program, writer, searcher, fileMeta, log,
               queryVars, ret>>

\* main calls start_watcher_thread, which spawns the thread
\* (src/main.rs:43-56, src/indexer.rs:491)
MainSpawn ==
    /\ mainPc = "spawn"
    /\ mainPc' = "sweep"
    /\ watcherPc' = "init"
    /\ UNCHANGED <<regVars, fs, segments, tagCache, rx, signal, visited, drained,
                   duringScan, startFrame>>

\* the watcher thread subscribes to the directory, or gives up
\* (src/indexer.rs:492-506)
WatcherSubscribe(ok) ==
    /\ watcherPc = "init"
    /\ watcherPc' = IF ok THEN "waiting" ELSE "dead"
    /\ UNCHANGED <<regVars, fs, segments, tagCache, mainPc, rx, signal, visited,
                   drained, duringScan, startFrame>>

\* scan_existing_files sweeps, drops the answer and goes on to the traversal
\* (src/indexer.rs:258)
ScanSweep(outcome) ==
    /\ mainPc = "sweep"
    /\ mainPc' = "scan"
    /\ CASE outcome = "ok" ->
              /\ segments' = Swept(segments, fs)
              /\ tagCache' = CacheRemove(tagCache, OrphanPaths(segments, fs))
         [] outcome = "writer_err" ->
              /\ OrphanPaths(segments, fs) # {}
              /\ UNCHANGED <<segments, tagCache>>
         [] outcome = "commit_err" ->
              /\ OrphanPaths(segments, fs) # {}
              /\ segments' = segments
              /\ tagCache' = CacheRemove(tagCache, OrphanPaths(segments, fs))
    /\ UNCHANGED <<regVars, fs, watcherPc, rx, signal, visited, drained,
                   duringScan, startFrame>>

\* the walk comes to the file f (src/indexer.rs:369-370, 381-405); a file
\* that is not there is passed by
ScanVisit(f, outcome) ==
    /\ mainPc = "scan"
    /\ f \notin visited
    /\ visited' = visited \cup {f}
    /\ LET st == process_file_entry(StateOf(files, segments, tagCache), fs,
                                    RawPath(f), outcome, now)
       IN  /\ files' = st.files
           /\ segments' = st.segments
           /\ tagCache' = st.tagCache
    /\ UNCHANGED <<scan_completed, pending_events, fs, mainPc, watcherPc, rx, signal,
                   drained, duringScan, startFrame>>

\* the walk is over, scan_existing_files returns and main sends the signal
\* (src/main.rs:59-62)
MainSignal ==
    /\ mainPc = "scan"
    /\ visited = Files
    /\ mainPc' = "cli"
    /\ signal' = TRUE
    /\ UNCHANGED <<regVars, fs, segments, tagCache, watcherPc, rx, visited, drained,
                   duringScan, startFrame>>

\* the watcher going on without the signal
WatcherCompleteScan_NoWait ==
    /\ watcherPc = "waiting"
    /\ signal' = FALSE
    /\ scan_completed' = TRUE
    /\ drained' = pending_events
    /\ pending_events' = <<>>
    /\ watcherPc' = "drain"
    /\ UNCHANGED <<files, fs, segments, tagCache, mainPc, rx, visited, duringScan,
                   startFrame>>

\* the watcher receives the signal and calls complete_scan
\* (src/indexer.rs:509-513, src/registry.rs:118-122)
WatcherCompleteScan ==
    /\ watcherPc = "waiting"
    /\ signal
    /\ signal' = FALSE
    /\ scan_completed' = TRUE
    /\ drained' = pending_events
    /\ pending_events' = <<>>
    /\ watcherPc' = "drain"
    /\ UNCHANGED <<files, fs, segments, tagCache, mainPc, rx, visited, duringScan,
                   startFrame>>

\* the watcher handles the pending events it got (src/indexer.rs:514-526)
WatcherDrain(outcome) ==
    /\ watcherPc = "drain"
    /\ watcherPc' = "live"
    /\ LET st == PendingEventsHandled(StateOf(files, segments, tagCache), fs,
                                      drained, outcome, now)
       IN  /\ files' = st.files
           /\ segments' = st.segments
           /\ tagCache' = st.tagCache
    /\ UNCHANGED <<scan_completed, pending_events, fs, mainPc, rx, signal, visited,
                   drained, duringScan, startFrame>>

\* the watcher takes one event from the channel (src/indexer.rs:529-575)
WatcherLive(outcome) ==
    /\ watcherPc = "live"
    /\ rx # <<>>
    /\ rx' = Tail(rx)
    /\ LET st == LiveEventHandled(StateOf(files, segments, tagCache), fs,
                                  Head(rx), outcome, now)
       IN  /\ files' = st.files
           /\ segments' = st.segments
           /\ tagCache' = st.tagCache
    /\ UNCHANGED <<scan_completed, pending_events, fs, mainPc, watcherPc, signal,
                   visited, drained, duringScan, startFrame>>

\* notify delivers the event of a change to the subscribed watcher; the
\* events delivered before main has sent the signal are remembered
Notified(ev) ==
    IF watcherPc \in {"off", "init", "dead"}
    THEN UNCHANGED <<rx, duringScan>>
    ELSE /\ Len(rx) < MaxQueue
         /\ rx' = Append(rx, ev)
         /\ duringScan' = IF mainPc \in {"sweep", "scan"}
                          THEN Append(duringScan, ev) ELSE duringScan

\* a file of the watched directory is written
FsWrite(f, c, t) ==
    /\ fs[f] # FileOf(t, c)
    /\ fs' = [fs EXCEPT ![f] = FileOf(t, c)]
    /\ Notified(EventOf(f, IF fs[f].exists THEN "Modify" ELSE "Create"))
    /\ UNCHANGED <<regVars, segments, tagCache, mainPc, watcherPc, signal, visited,
                   drained, startFrame>>

\* a file of the watched directory is removed
FsRemove(f) ==
    /\ fs[f].exists
    /\ fs' = [fs EXCEPT ![f] = Absent]
    /\ Notified(EventOf(f, "Delete"))
    /\ UNCHANGED <<regVars, segments, tagCache, mainPc, watcherPc, signal, visited,
                   drained, startFrame>>

\* what earlier runs of the binary left in the index and the cache: nothing;
\* file a indexed; then file b; then the segments merged; then a indexed again
PrevFs == [f \in Files |-> FileOf(1, "x")]
PrevRuns ==
    LET PrevRun0 == StateOf(<<>>, <<>>, <<>>)
        PrevRun1 == PaiState(PrevRun0, PrevFs, RawPath("a"), "ok")
        PrevRun2 == PaiState(PrevRun1, PrevFs, RawPath("b"), "ok")
        PrevRun3 == [PrevRun2 EXCEPT !.segments = MergeSegments(@)]
        PrevRun4 == PaiState(PrevRun3, PrevFs, RawPath("a"), "ok")
    IN  {PrevRun0, PrevRun1, PrevRun2, PrevRun3, PrevRun4}

InitStartup ==
    /\ RegistryNew
    /\ HistInit
    /\ NoCalls
    /\ now = 1
    /\ program = "pipeline"
    /\ fs \in [Files -> {Absent, FileOf(1, "x")}]
    /\ \E r \in PrevRuns : segments = r.segments /\ tagCache = r.tagCache
    /\ fileMeta = <<>>
    /\ log = <<>>
    /\ NoQuery
    /\ writer = <<>>
    /\ searcher = <<>>
    /\ ret = NoRet
    /\ mainPc = "spawn"
    /\ watcherPc = "off"
    /\ rx = <<>>
    /\ signal = FALSE
    /\ visited = {}
    /\ drained = <<>>
    /\ duringScan = <<>>

NextStartup ==
    \/ MainSpawn
    \/ \E ok \in BOOLEAN : WatcherSubscribe(ok)
    \/ \E o \in {"ok", "writer_err", "commit_err"} : ScanSweep(o)
    \/ \E f \in Files, o \in Outcomes : ScanVisit(f, o)
    \/ MainSignal
    \/ WatcherCompleteScan
    \/ \E o \in Outcomes : WatcherDrain(o)
    \/ \E o \in Outcomes : WatcherLive(o)
    \/ \E f \in Files : \E v \in Versions(f) : FsWrite(f, v[1], v[2])
    \/ \E f \in Files : FsRemove(f)

SpecStartup == InitStartup /\ [][NextStartup]_vars

\* C9 as claimed: the sweep is over before the scanner comes to any file, and
\* when the traversal begins, whatever the sweep answered, no live document
\* has a path that does not exist.
C9_SweptBeforeScan ==
    [][/\ (mainPc = "sweep" /\ mainPc' = "scan")
            => \A d \in LiveDocs(segments') : PathExists(fs', d.path)
       /\ visited' # {} => mainPc' \notin {"spawn", "sweep"}]_vars

\* C10 as claimed: the events the watcher receives while the scan runs are
\* in the registry's pending queue, and they are what complete_scan hands to
\* the watcher.
C10_HandOff ==
    /\ mainPc \in {"sweep", "scan"} => pending_events = duringScan
    /\ watcherPc \in {"drain", "live"} => drained = duringScan

\* C1: once a try_start_processing(p, t) call has returned true, no other
\* call for p returns true until finish_processing(p) has been executed:
\* at most one grant is outstanding for every path.
C1_MutualExclusion == \A p \in Paths : outstanding[p] <= 1

\* A grant for some path is outstanding while another caller is refused.
C1_Witness ==
    \E p \in Paths : outstanding[p] = 1 /\ p \in DOMAIN files /\ files[p].processing

\* C2 as claimed: under try_start_processing, finish_processing and
\* mark_deleted at most one granted caller per path has not yet finished.
C2_AtMostOneInFlight == \A p \in Paths : Cardinality(holders[p]) <= 1

(***************************************************************************)
(* The first start of the binary, on an empty index, when nothing fails:    *)
(* every indexing, deletion and sweep answers Ok and the watcher           *)
(* subscribes.                                                             *)
(***************************************************************************)
InitFirstRun == InitStartup /\ segments = <<>> /\ tagCache = <<>>

NextStartupOk ==
    \/ MainSpawn
    \/ WatcherSubscribe(TRUE)
    \/ ScanSweep("ok")
    \/ \E f \in Files : ScanVisit(f, "ok")
    \/ MainSignal
    \/ WatcherCompleteScan
    \/ WatcherDrain("ok")
    \/ WatcherLive("ok")
    \/ \E f \in Files : \E v \in Versions(f) : FsWrite(f, v[1], v[2])
    \/ \E f \in Files : FsRemove(f)

SpecStartupOk == InitFirstRun /\ [][NextStartupOk]_vars

\* the scan is over and the watcher has handled every event it was sent:
\* no step of the program is enabled until the file system changes again
Settled == mainPc = "cli" /\ watcherPc = "live" /\ rx = <<>>

\* the live documents are those of the existing files, each with its file's
\* current content
Reflects(segs, fsys) ==
    /\ \A d \in LiveDocs(segs) :
          fsys[d.path.file].exists /\ d.body = fsys[d.path.file].content
    /\ \A f \in Files : fsys[f].exists => LiveOfFile(segs, f) = 1

\* C11 as claimed: whatever was created, modified or deleted while the scan
\* ran, once the scan is over and the watcher has handled the events it was
\* sent, the live documents are exactly those of the existing files, with
\* their current content.
C11_IndexReflectsFs == Settled => Reflects(segments, fs)

(***************************************************************************)
(* The handlers of the scanner and of the watcher, one call after another  *)
(* (the watcher handles no event before the scan is over,                  *)
(* src/indexer.rs:509), on files that are written and removed in between.  *)
(* ret keeps what the last call did.                                       *)
(***************************************************************************)
\* process_and_index answers Ok (src/indexer.rs:148-203)
PaiOk(cache, fsys, p, outcome) ==
    /\ PathExists(fsys, p)
    /\ outcome = "ai_err" => CacheHit(cache, Canonicalize(fsys, p), fsys[p.file].content)
    /\ outcome # "write_err"

\* what a call of process_file_entry (check) or handle_file_event did on an
\* existing file: whether try_start_processing granted it, whether
\* process_and_index ran, and whether it failed
HandlerRet(op, st, fsys, p, outcome, check) ==
    LET granted == TryStartGranted(st.files, p, fsys[p.file].mtime)
        ran == granted /\ (check => should_index_file(st.segments, fsys, p))
    IN  [op |-> op, arg |-> p, mtime |-> fsys[p.file].mtime,
         content |-> fsys[p.file].content,
         indexed |-> \E d \in LiveDocs(st.segments) : d.path = CanonPath(p.file),
         was |-> {d.body : d \in {e \in LiveDocs(st.segments) :
                                      e.path = CanonPath(p.file)}},
         granted |-> granted, ran |-> ran,
         ok |-> ran /\ PaiOk(st.tagCache, fsys, p, outcome),
         failed |-> ran /\ ~PaiOk(st.tagCache, fsys, p, outcome)]

\* what a deletion by the watcher did: whether the file had a live document
\* and whether delete_from_index answered Ok
DeletionRet(op, st, p, outcome) ==
    [op |-> op, arg |-> p,
     indexed |-> \E d \in LiveDocs(st.segments) : d.path = CanonPath(p.file),
     ok |-> outcome # "write_err"]

\* the scanner comes to the file f (src/indexer.rs:381-405)
ScanFile(f, outcome) ==
    /\ program = "pipeline"
    /\ PathExists(fs, RawPath(f))
    /\ LET st == StateOf(files, segments, tagCache)
           to == process_file_entry(st, fs, RawPath(f), outcome, now)
       IN  /\ files' = to.files
           /\ segments' = to.segments
           /\ tagCache' = to.tagCache
           /\ ret' = HandlerRet("process_file_entry", st, fs, RawPath(f), outcome, TRUE)
    /\ UNCHANGED <<lockVars, queryVars, cacheVars, startVars, scan_completed, pending_events, histVars, now, fs,
                   program, writer, searcher>>

\* the watcher handles an event of the live loop (src/indexer.rs:529-571)
WatchEvent(f, type, outcome) ==
    /\ program = "pipeline"
    /\ LET st == StateOf(files, segments, tagCache)
           ev == EventOf(f, type)
           to == LiveEventHandled(st, fs, ev, outcome, now)
       IN  /\ files' = to.files
           /\ segments' = to.segments
           /\ tagCache' = to.tagCache
           /\ ret' = IF type = "Delete" \/ ~PathExists(fs, ev.path)
                     THEN DeletionRet(type, st, ev.path, outcome)
                     ELSE HandlerRet("handle_file_event", st, fs, ev.path, outcome, FALSE)
    /\ UNCHANGED <<lockVars, queryVars, cacheVars, startVars, scan_completed, pending_events, histVars, now, fs,
                   program, writer, searcher>>

InitHandlers ==
    /\ RegistryNew
    /\ HistInit
    /\ NoCalls
    /\ now = 1
    /\ fs = [f \in Files |-> Absent]
    /\ program = "pipeline"
    /\ IndexEmpty
    /\ NotStarted
    /\ NoQuery

NextHandlers ==
    \/ \E f \in Files, o \in Outcomes : ScanFile(f, o)
    \/ \E f \in Files, type \in EventTypes, o \in Outcomes : WatchEvent(f, type, o)
    \/ \E f \in Files : \E v \in Versions(f) : WriteFile(f, v[1], v[2])
    \/ \E f \in Files : RemoveFile(f)

SpecHandlers == InitHandlers /\ [][NextHandlers]_vars

HandlerOps == {"process_file_entry", "handle_file_event"}

\* C12 as claimed: after an indexing that the registry granted has failed,
\* try_start_processing with the file's unchanged mtime is granted again.
C12_RetryGranted ==
    (ret.op \in HandlerOps /\ ret.failed)
        => TryStartGranted(files, ret.arg, ret.mtime)

\* C13: whenever process_file_entry or handle_file_event was granted a path,
\* finish_processing has run when the handler returns, whether the indexing
\* succeeded, failed or was skipped: between two handler calls no registry
\* entry has processing = true.
C13_FlagCleared == \A p \in DOMAIN files : ~files[p].processing

\* A handler was granted a path, its indexing failed, and the entry of the
\* path is in the registry with the flag cleared.
C13_Witness ==
    /\ ret.op \in HandlerOps
    /\ ret.granted
    /\ ret.failed
    /\ ret.arg \in DOMAIN files
    /\ ~files[ret.arg].processing

\* the file has exactly one live document, keyed by its canonical path, and
\* the document's body is c
ShowsContent(segs, f, c) ==
    /\ LiveOfFile(segs, f) = 1
    /\ \A d \in LiveDocs(segs) :
          d.path.file = f => d.path = CanonPath(f) /\ d.body = c

\* C14 as claimed: after the watcher has handled, without an error, a create
\* or modify event of a file that was indexed, the live document of the path
\* holds the content the file had at that event.
C14_LastEventWins ==
    (ret.op = "handle_file_event" /\ ~ret.failed /\ ret.indexed)
        => ShowsContent(segments, ret.arg.file, ret.content)

\* C14 amended: an event that try_start_processing grants and whose indexing
\* answers Ok leaves exactly one live document of the path, under the
\* canonical path and with the file's content at that event; an event that
\* try_start_processing refuses leaves the index as it was.
C14_LastGrantedEventWins ==
    [][/\ (ret'.op = "handle_file_event" /\ ret'.ok)
            => ShowsContent(segments', ret'.arg.file, ret'.content)
       /\ (ret'.op = "handle_file_event" /\ ~ret'.granted)
            => segments' = segments]_vars

\* The watcher has handled the event of a rewrite of an indexed file: the
\* document held other content before and holds the new content now.
C14_Witness ==
    /\ ret.op = "handle_file_event"
    /\ ret.ok
    /\ ret.was # {}
    /\ ret.content \notin ret.was
    /\ ShowsContent(segments, ret.arg.file, ret.content)

\* C15 as claimed: after the watcher has handled a Delete event, or a Create
\* or Modify event of a path that no longer exists, for a file that was
\* indexed, no live document of the file remains, its tag-cache entry is gone
\* and the registry has no entry for the path.
C15_WatcherDeletes ==
    (ret.op \in EventTypes /\ ret.ok /\ ret.indexed /\ ~PathExists(fs, ret.arg))
        => /\ LiveOfFile(segments, ret.arg.file) = 0
           /\ CacheEntries(tagCache, ret.arg.file) = 0
           /\ ret.arg \notin DOMAIN files

(***************************************************************************)
(* The file-meta entries of the cache (src/cache.rs:25-66, 142-204)        *)
(***************************************************************************)
\* FileMetaEntry::from_path (src/cache.rs:36-50), on an existing file
MetaFromPath(fsys, p) ==
    [file_size |-> FileSize(fsys[p.file].content), mtime |-> fsys[p.file].mtime,
     indexed |-> FALSE]

\* FileMetaEntry::needs_reindex (src/cache.rs:54-64)
needs_reindex(cached, current) ==
    IF cached.file_size # current.file_size THEN TRUE
    ELSE IF current.mtime > cached.mtime THEN TRUE
    ELSE FALSE

\* EmbeddingCache::check_file_status (src/cache.rs:151-176)
check_file_status(meta, key, fsys, p) ==
    IF ~PathExists(fsys, p) THEN "New"
    ELSE IF key \notin DOMAIN meta THEN "New"
    ELSE IF needs_reindex(meta[key], MetaFromPath(fsys, p)) THEN "Modified"
    ELSE "Unchanged"

\* C16 as claimed: after index_file or process_and_index has returned Ok for
\* a path, a FileMetaEntry of the file exists with indexed = true, and
\* check_file_status answers Unchanged while the file is as it was.
C16_FileMetaWritten ==
    (ret.op \in IndexOps /\ ret.ok)
        => \E k \in DOMAIN fileMeta :
              /\ k.file = ret.arg.file
              /\ fileMeta[k].indexed
              /\ check_file_status(fileMeta, k, fs, ret.arg) = "Unchanged"

(***************************************************************************)
(* The tag cache by itself: set_keywords, remove and get_keywords in any   *)
(* order (src/cache.rs:96-127).  sled's insert or remove can answer Err,   *)
(* and so can the flush after it.  log keeps the calls that changed the    *)
(* database.                                                               *)
(***************************************************************************)
\* the texts looked up and stored: "z" has the hash of "y"
CacheTexts == Contents \cup {"z"}
TagLists == {<<>>, <<"kx">>}
CacheKeys == PathsOf("engine")
DbOutcomes == {"ok", "db_err", "flush_err"}

\* the call changed the database: insert or remove answered Ok
TookEffect(outcome) == outcome # "db_err"

\* EmbeddingCache::set_keywords is called (src/cache.rs:110-120)
SetKeywords(key, c, kw, outcome) ==
    /\ Len(log) < MaxLog
    /\ tagCache' = IF TookEffect(outcome) THEN set_keywords(tagCache, key, c, kw)
                   ELSE tagCache
    /\ log' = IF TookEffect(outcome)
              THEN Append(log, [op |-> "set_keywords", key |-> key, content |-> c,
                                keywords |-> kw])
              ELSE log
    /\ ret' = NoRet
    /\ UNCHANGED <<lockVars, queryVars, startVars, regVars, histVars, now, fs, program,
                   segments, writer, searcher, fileMeta>>

\* EmbeddingCache::remove is called (src/cache.rs:123-127)
RemoveKeywords(key, outcome) ==
    /\ Len(log) < MaxLog
    /\ tagCache' = IF TookEffect(outcome) THEN CacheRemove(tagCache, {key})
                   ELSE tagCache
    /\ log' = IF TookEffect(outcome)
              THEN Append(log, [op |-> "remove", key |-> key])
              ELSE log
    /\ ret' = NoRet
    /\ UNCHANGED <<lockVars, queryVars, startVars, regVars, histVars, now, fs, program,
                   segments, writer, searcher, fileMeta>>

\* EmbeddingCache::get_keywords is called (src/cache.rs:96-107)
GetKeywords(key, c) ==
    /\ ret' = [op |-> "get_keywords", arg |-> key, content |-> c,
               some |-> CacheHit(tagCache, key, c),
               keywords |-> IF CacheHit(tagCache, key, c)
                            THEN tagCache[key].keywords ELSE <<>>]
    /\ UNCHANGED <<lockVars, queryVars, startVars, regVars, histVars, now, fs, program,
                   segments, writer, searcher, tagCache, fileMeta, log>>

InitCache ==
    /\ RegistryNew
    /\ HistInit
    /\ NoCalls
    /\ now = 1
    /\ fs = [f \in Files |-> IF f = "a" THEN FileOf(1, "x") ELSE Absent]
    /\ program = "pipeline"
    /\ IndexEmpty
    /\ NotStarted
    /\ NoQuery

NextCache ==
    \/ \E k \in CacheKeys, c \in CacheTexts, kw \in TagLists, o \in DbOutcomes :
          SetKeywords(k, c, kw, o)
    \/ \E k \in CacheKeys, o \in DbOutcomes : RemoveKeywords(k, o)
    \/ \E k \in CacheKeys, c \in CacheTexts : GetKeywords(k, c)

SpecCache == InitCache /\ [][NextCache]_vars

\* the entry that the calls of a history left for a key: that of the last
\* set_keywords, unless a remove came after it
NoEntry == [none |-> TRUE]
RECURSIVE LastEntry(_, _)
LastEntry(calls, key) ==
    IF calls = <<>> THEN NoEntry
    ELSE LET c == calls[Len(calls)] IN
         IF c.key = key
         THEN IF c.op = "remove" THEN NoEntry
              ELSE [content |-> c.content, keywords |-> c.keywords]
         ELSE LastEntry(SubSeq(calls, 1, Len(calls) - 1), key)

\* C17: after any sequence of set_keywords and remove calls,
\* get_keywords(path, content) answers Some exactly when the last entry
\* stored for the path and not removed since was stored with content of the
\* same hash, and then it answers the tags stored with that entry.
C17_LookupIsLastEntry ==
    ret.op = "get_keywords"
        => LET e == LastEntry(log, ret.arg) IN
           /\ ret.some <=> (e # NoEntry /\ hash_content(e.content) = hash_content(ret.content))
           /\ ret.some => ret.keywords = e.keywords

\* A lookup after an entry was overwritten: it answers the tags of the
\* second set_keywords, for a text that is not the stored one but has its hash.
C17_Witness ==
    /\ ret.op = "get_keywords"
    /\ ret.some
    /\ Len(log) >= 2
    /\ \E i, j \in 1..Len(log) :
          /\ i < j
          /\ log[i].op = "set_keywords" /\ log[i].key = ret.arg
          /\ log[j].op = "set_keywords" /\ log[j].key = ret.arg
          /\ log[j].keywords # log[i].keywords
          /\ ret.keywords = log[j].keywords
          /\ ret.content # log[j].content

LowerCase == {"a", "b", "c", "d", "e", "f", "g", "h", "i", "j", "k", "l", "m",
              "n", "o", "p", "q", "r", "s", "t", "u", "v", "w", "x", "y", "z"}
Digits == {"0", "1", "2", "3", "4", "5", "6", "7", "8", "9"}
Quote == "\""
Alphabet == LowerCase \cup Digits \cup
            {" ", "-", "=", Quote, ".", "<", ">", "/", "*", ",", "A", "~", "("}

\* F at the value of x: a local binding, `let v = x` in the code
Let(F(_), x) == CHOOSE y \in {F(v) : v \in {x}} : TRUE

Least(S) == CHOOSE x \in S : \A y \in S : x <= y
Greatest(S) == CHOOSE x \in S : \A y \in S : x >= y

\* the first index from j on whose character is not in the set, Len(s) + 1 if
\* there is none: the end of a greedy run
RunEnd(s, j, set) ==
    IF j > Len(s) THEN j
    ELSE Least({e \in j..Len(s) + 1 : e > Len(s) \/ s[e] \notin set})

\* str::trim
Trim(s) ==
    LET kept == {i \in 1..Len(s) : s[i] # " "} IN
    IF kept = {} THEN <<>> ELSE SubSeq(s, Least(kept), Greatest(kept))

\* ARG_PATTERN, --([a-z\-]+)=(?:"([^"]+)"|([^\s]+)), matched at index i
\* (src/query/parser.rs:30-33): the key is the greedy run before "="; the
\* value is the text between double quotes if a closing quote follows at
\* least one character, else the greedy run of non-blank characters.
NoMatch == [ok |-> FALSE]
ArgMatchAt(s, i) ==
    IF i + 1 > Len(s) \/ s[i] # "-" \/ s[i + 1] # "-"
    THEN NoMatch
    ELSE Let(LAMBDA k :
             IF k = i + 2 \/ k > Len(s) \/ s[k] # "="
             THEN NoMatch
             ELSE LET q == RunEnd(s, k + 2, Alphabet \ {Quote})
                      e == RunEnd(s, k + 1, Alphabet \ {" "})
                  IN  IF /\ k + 1 <= Len(s) /\ s[k + 1] = Quote
                         /\ q > k + 2 /\ q <= Len(s)
                      THEN [ok |-> TRUE, start |-> i, end |-> q + 1,
                            key |-> SubSeq(s, i + 2, k - 1),
                            value |-> SubSeq(s, k + 2, q - 1)]
                      ELSE IF e > k + 1
                           THEN [ok |-> TRUE, start |-> i, end |-> e,
                                 key |-> SubSeq(s, i + 2, k - 1),
                                 value |-> SubSeq(s, k + 1, e - 1)]
                           ELSE NoMatch,
             RunEnd(s, i + 2, LowerCase \cup {"-"}))

\* the leftmost match that starts at index i or later
FindFrom(s, i) ==
    LET starts == {j \in i..Len(s) : ArgMatchAt(s, j).ok} IN
    IF starts = {} THEN NoMatch ELSE ArgMatchAt(s, Least(starts))

\* the loop over captures_iter (src/query/parser.rs:65-89): the flags in
\* order, and the pieces of text between them, each trimmed but the last
RECURSIVE Captured(_, _, _, _)
Captured(s, last_end, args, text_parts) ==
    Let(LAMBDA m :
            IF m.ok
            THEN Captured(s, m.end,
                          Append(args, [key |-> m.key, value |-> m.value]),
                          IF m.start > last_end
                          THEN Append(text_parts,
                                      Trim(SubSeq(s, last_end, m.start - 1)))
                          ELSE text_parts)
            ELSE [args |-> args,
                  text_parts |-> IF last_end <= Len(s)
                                 THEN Append(text_parts, SubSeq(s, last_end, Len(s)))
                                 ELSE text_parts],
        FindFrom(s, last_end))
\* the flags and the pieces of text of an input (src/query/parser.rs:60-89)
Captures(input_str) ==
    Let(LAMBDA s : Captured(s, 1, <<>>, <<>>), Trim(input_str))

\* the non-empty pieces joined by one blank (src/query/parser.rs:92-96)
RECURSIVE Join(_)
Join(parts) ==
    IF parts = <<>> THEN <<>>
    ELSE IF Head(parts) = <<>> THEN Join(Tail(parts))
    ELSE IF \A i \in 2..Len(parts) : parts[i] = <<>> THEN Head(parts)
    ELSE Head(parts) \o <<" ">> \o Join(Tail(parts))

(***************************************************************************)
(* Unsigned 64-bit arithmetic.  A u64 is the sequence of its eight bytes,  *)
(* least significant first; an operation returns the wrapped value and     *)
(* whether the exact result did not fit.                                   *)
(***************************************************************************)
Byte == 256
U64Bytes == 8

\* a natural number below 2^31 as a u64
U64(n) == [i \in 1..U64Bytes |-> IF i > 4 THEN 0 ELSE (n \div Byte ^ (i - 1)) % Byte]
\* the number a u64 below 2^31 stands for
BytesNat(x) == x[1] + Byte * (x[2] + Byte * (x[3] + Byte * x[4]))
\* -n for 0 < n < 2^31 cast to u64: 2^64 - n, the complement of n - 1
NegU64(n) == [i \in 1..U64Bytes |-> Byte - 1 - U64(n - 1)[i]]

\* the eight bytes and the carry out of them as a wrapped result
Wrapped(wide) == [bytes |-> SubSeq(wide, 1, U64Bytes), overflow |-> wide[U64Bytes + 1] # 0]

AddU64(x, y) ==
    LET RECURSIVE AddCarry(_, _, _, _)
        AddCarry(a, b, i, carry) ==
            IF i > U64Bytes THEN <<carry>>
            ELSE <<(a[i] + b[i] + carry) % Byte>>
                 \o AddCarry(a, b, i + 1, (a[i] + b[i] + carry) \div Byte)
    IN  Let(LAMBDA xy : Let(Wrapped, AddCarry(xy[1], xy[2], 1, 0)), <<x, y>>)

\* x * k + c for a factor k and an addend c below 2^22
MulAddU64(x, k, c) ==
    LET RECURSIVE MulCarry(_, _, _, _)
        MulCarry(a, f, i, carry) ==
            IF i > U64Bytes THEN <<carry>>
            ELSE <<(a[i] * f + carry) % Byte>>
                 \o MulCarry(a, f, i + 1, (a[i] * f + carry) \div Byte)
    IN  Let(LAMBDA xkc : Let(Wrapped, MulCarry(xkc[1], xkc[2], 1, xkc[3])),
            <<x, k, c>>)
MulU64(x, k) == MulAddU64(x, k, 0)

\* x \div k for a divisor k below 2^22, most significant byte first
DivU64(x, k) ==
    LET RECURSIVE DivRem(_, _, _, _)
        DivRem(a, d, i, rem) ==
            IF i = 0 THEN <<>>
            ELSE DivRem(a, d, i - 1, (rem * Byte + a[i]) % d)
                 \o <<(rem * Byte + a[i]) \div d>>
    IN  Let(LAMBDA xk : DivRem(xk[1], xk[2], U64Bytes, 0), <<x, k>>)

None == [some |-> FALSE]
Some(v) == [some |-> TRUE, value |-> v]
Panic == [some |-> FALSE, panic |-> TRUE]

IsDigits(s) == s # <<>> /\ \A i \in 1..Len(s) : s[i] \in Digits

\* the value of a run of decimal digits, six digits at a time, and whether it
\* left the 64 bits; DigitsNat is the value of the first i of at most six
\* digits
RECURSIVE DecimalU64(_)
DecimalU64(s) ==
    LET DigitValue == "0" :> 0 @@ "1" :> 1 @@ "2" :> 2 @@ "3" :> 3 @@ "4" :> 4 @@
                      "5" :> 5 @@ "6" :> 6 @@ "7" :> 7 @@ "8" :> 8 @@ "9" :> 9
        RECURSIVE DigitsNat(_, _)
        DigitsNat(t, i) ==
            IF i = 0 THEN 0 ELSE DigitsNat(t, i - 1) * 10 + DigitValue[t[i]]
    IN
    IF Len(s) <= 6 THEN [bytes |-> U64(DigitsNat(s, Len(s))), overflow |-> FALSE]
    ELSE Let(LAMBDA high :
                 Let(LAMBDA r : [bytes |-> r.bytes,
                                 overflow |-> high.overflow \/ r.overflow],
                     MulAddU64(high.bytes, 1000000,
                               DigitsNat(SubSeq(s, Len(s) - 5, Len(s)), 6))),
             DecimalU64(SubSeq(s, 1, Len(s) - 6)))

\* str::parse::<u32>: digits with a value below 2^32 (the alphabet has no
\* sign); the value is kept as a u64
ParseU32(s) ==
    IF ~IsDigits(s) THEN None
    ELSE Let(LAMBDA d :
                 IF d.overflow \/ SubSeq(d.bytes, 5, 8) # <<0, 0, 0, 0>> THEN None
                 ELSE Some(d.bytes),
             DecimalU64(s))
\* str::parse::<i32>: digits with a value below 2^31; the value is a number
ParseI32(s) ==
    Let(LAMBDA v : IF v.some /\ v.value[4] < 128 THEN Some(BytesNat(v.value)) ELSE None,
        ParseU32(s))

\* str::split on one character: the pieces, empty ones included
SplitOn(s, c) ==
    Let(LAMBDA cuts :
            [n \in 1..Cardinality(cuts) - 1 |->
                LET from == CHOOSE i \in cuts : Cardinality({j \in cuts : j < i}) = n - 1
                    to == CHOOSE i \in cuts : Cardinality({j \in cuts : j < i}) = n
                IN  SubSeq(s, from + 1, to - 1)],
        {0, Len(s) + 1} \cup {i \in 1..Len(s) : s[i] = c})

\* str::to_lowercase on the alphabet
ToLowercase(s) == [i \in 1..Len(s) |-> IF s[i] = "A" THEN "a" ELSE s[i]]

\* parse_time_range (src/query/parser.rs:191-216)
parse_time_range(value) ==
    Let(LAMBDA s :
            LET TimeUnits == [h |-> "LastHours", d |-> "LastDays",
                              w |-> "LastWeeks", m |-> "LastMonths"]
            IN
            IF s = <<"t", "o", "d", "a", "y">> THEN Some([kind |-> "Today"])
            ELSE IF s \in {<<"w", "e", "e", "k">>,
                           <<"t", "h", "i", "s", "-", "w", "e", "e", "k">>}
            THEN Some([kind |-> "ThisWeek"])
            ELSE IF s \in {<<"m", "o", "n", "t", "h">>,
                           <<"t", "h", "i", "s", "-", "m", "o", "n", "t", "h">>}
            THEN Some([kind |-> "ThisMonth"])
            ELSE IF /\ Len(s) >= 2
                    /\ s[Len(s)] \in DOMAIN TimeUnits
                    /\ IsDigits(SubSeq(s, 1, Len(s) - 1))
            THEN Let(LAMBDA num :
                         IF num.some
                         THEN Some([kind |-> TimeUnits[s[Len(s)]], n |-> num.value])
                         ELSE None,
                     ParseU32(SubSeq(s, 1, Len(s) - 1)))
            ELSE None,
        ToLowercase(value))

\* x - 1 on a u32 held as a u64
SubOneU32(x) ==
    IF x = U64(0)
    THEN [bytes |-> <<255, 255, 255, 255, 0, 0, 0, 0>>, overflow |-> TRUE]
    ELSE [bytes |-> AddU64(x, NegU64(1)).bytes, overflow |-> FALSE]

EpochYear == 1970
\* the arithmetic of parse_date (src/query/parser.rs:232-236) on the year, a
\* number, and the month and the day, each a u32
DateSeconds(year, month, day) ==
    Let(LAMBDA t :
            Let(LAMBDA sum :
                    Let(LAMBDA days_since_epoch :
                            Let(LAMBDA secs :
                                    [bytes |-> secs.bytes,
                                     overflow |-> \/ t[1].overflow \/ t[2].overflow
                                                  \/ t[3].overflow \/ t[4].overflow
                                                  \/ sum.overflow
                                                  \/ days_since_epoch.overflow
                                                  \/ secs.overflow],
                                MulU64(days_since_epoch.bytes, 86400)),
                        AddU64(sum.bytes, t[4].bytes)),
                AddU64(t[1].bytes, t[3].bytes)),
        <<MulU64(IF year >= EpochYear THEN U64(year - EpochYear)
                 ELSE NegU64(EpochYear - year), 365),
          SubOneU32(month),
          MulU64(SubOneU32(month).bytes, 30),
          SubOneU32(day)>>)

\* parse_date (src/query/parser.rs:219-237).  With overflow checks (bld =
\* "debug") an operation whose result does not fit panics; without them it
\* wraps.
parse_date(s, bld) ==
    Let(LAMBDA parts :
            IF Len(parts) # 3 THEN None
            ELSE Let(LAMBDA ymd :
                         IF ~ymd[1].some \/ ~ymd[2].some \/ ~ymd[3].some THEN None
                         ELSE Let(LAMBDA secs :
                                      IF secs.overflow /\ bld = "debug" THEN Panic
                                      ELSE Some(secs.bytes),
                                  DateSeconds(ymd[1].value, ymd[2].value, ymd[3].value)),
                     <<ParseI32(parts[1]), ParseU32(parts[2]), ParseU32(parts[3])>>),
        SplitOn(s, "-"))

\* SIZE_PATTERN, ^([<>])?(\d+(?:\.\d+)?)(kb|mb|gb|b)?(?:-(\d+(?:\.\d+)?)(kb|mb|gb|b)?)?$
\* (src/query/parser.rs:35-37), is matched left to right; no alternative
\* leaves a choice.  A number is its digits before and after the point, and
\* UnitAt is the unit at an index, <<>> if there is none.
SizeMatch(s) ==
    LET NumberAt(i) ==
            Let(LAMBDA e :
                    LET f == RunEnd(s, e + 1, Digits) IN
                    IF e = i THEN NoMatch
                    ELSE IF e + 1 <= Len(s) /\ s[e] = "." /\ f > e + 1
                    THEN [ok |-> TRUE, end |-> f, int |-> SubSeq(s, i, e - 1),
                          frac |-> SubSeq(s, e + 1, f - 1)]
                    ELSE [ok |-> TRUE, end |-> e, int |-> SubSeq(s, i, e - 1),
                          frac |-> <<>>],
                RunEnd(s, i, Digits))
        UnitAt(i) ==
            IF i + 1 <= Len(s) /\ s[i] \in {"k", "m", "g"} /\ s[i + 1] = "b"
            THEN SubSeq(s, i, i + 1)
            ELSE IF i <= Len(s) /\ s[i] = "b" THEN <<"b">> ELSE <<>>
        i1 == IF s # <<>> /\ s[1] \in {"<", ">"} THEN 2 ELSE 1
    IN  Let(LAMBDA n1 :
                IF ~n1.ok THEN NoMatch
                ELSE Let(LAMBDA u1 :
                             IF n1.end + Len(u1) > Len(s)
                             THEN [ok |-> TRUE, op |-> SubSeq(s, 1, i1 - 1),
                                   num1 |-> n1, unit1 |-> u1, range |-> FALSE]
                             ELSE IF s[n1.end + Len(u1)] # "-" THEN NoMatch
                             ELSE Let(LAMBDA n2 :
                                          IF n2.ok /\ n2.end + Len(UnitAt(n2.end)) > Len(s)
                                          THEN [ok |-> TRUE, op |-> SubSeq(s, 1, i1 - 1),
                                                num1 |-> n1, unit1 |-> u1, range |-> TRUE,
                                                num2 |-> n2, unit2 |-> UnitAt(n2.end)]
                                          ELSE NoMatch,
                                      NumberAt(n1.end + Len(u1) + 1)),
                         UnitAt(n1.end)),
            NumberAt(i1))

\* parse_size_bytes (src/query/parser.rs:270-279): the number times the
\* unit's multiplier, cut to a whole number of bytes; the cast saturates.
\* The f64 product is exact for numerals of up to fifteen digits.
Kb == 1024
U64Max == <<255, 255, 255, 255, 255, 255, 255, 255>>
parse_size_bytes(num, unit) ==
    LET RECURSIVE TimesKb(_, _)
        TimesKb(x, n) ==
            IF n = 0 THEN x
            ELSE Let(LAMBDA m : TimesKb([bytes |-> m.bytes,
                                         overflow |-> x.overflow \/ m.overflow],
                                        n - 1),
                     MulU64(x.bytes, Kb))
        RECURSIVE TenthsOf(_, _)
        TenthsOf(x, n) ==
            IF n = 0 THEN x ELSE Let(LAMBDA y : TenthsOf(y, n - 1), DivU64(x, 10))
    IN
    Let(LAMBDA product :
            IF product.overflow THEN U64Max
            ELSE TenthsOf(product.bytes, Len(num.frac)),
        TimesKb(DecimalU64(num.int \o num.frac),
                IF unit = <<"b">> THEN 0 ELSE IF unit = <<"k", "b">> THEN 1
                ELSE IF unit = <<"m", "b">> THEN 2 ELSE 3))

\* parse_size_filter (src/query/parser.rs:240-267)
parse_size_filter(value) ==
    Let(LAMBDA cap :
            IF ~cap.ok THEN None
            ELSE Let(LAMBDA size1 :
                         IF cap.range /\ cap.unit2 # <<>>
                         THEN Some([kind |-> "Between", a |-> size1,
                                    b |-> parse_size_bytes(cap.num2, cap.unit2)])
                         ELSE IF cap.op = <<">">>
                         THEN Some([kind |-> "GreaterThan", a |-> size1])
                         ELSE Some([kind |-> "LessThan", a |-> size1]),
                     parse_size_bytes(cap.num1,
                                      IF cap.unit1 = <<>> THEN <<"b">> ELSE cap.unit1)),
        SizeMatch(ToLowercase(value)))

\* args.get(key): the values given for a key, in the order of the input
ValuesOf(args, key) ==
    LET given == SelectSeq(args, LAMBDA a : a.key = key)
    IN  [i \in 1..Len(given) |-> given[i].value]

\* the pieces of every value, split at commas and trimmed
RECURSIVE ListItems(_)
ListItems(values) ==
    IF values = <<>> THEN <<>>
    ELSE Let(LAMBDA pieces : [i \in 1..Len(pieces) |-> Trim(pieces[i])],
             SplitOn(Head(values), ","))
         \o ListItems(Tail(values))

\* the keys that parse_filters looks up
Keys == [path |-> <<"p", "a", "t", "h">>,
         exclude_path |-> <<"e", "x", "c", "l", "u", "d", "e", "-", "p", "a", "t", "h">>,
         type |-> <<"t", "y", "p", "e">>,
         tag |-> <<"t", "a", "g">>,
         time_field |-> <<"t", "i", "m", "e", "-", "f", "i", "e", "l", "d">>,
         time |-> <<"t", "i", "m", "e">>,
         after |-> <<"a", "f", "t", "e", "r">>,
         before |-> <<"b", "e", "f", "o", "r", "e">>,
         size |-> <<"s", "i", "z", "e">>]

\* the time field (src/query/parser.rs:152-159)
TimeFieldOf(args) ==
    Let(LAMBDA v :
            IF v = <<>> THEN "Modified"
            ELSE IF v[1] = <<"c", "r", "e", "a", "t", "e", "d">> THEN "Created"
            ELSE IF v[1] = <<"i", "n", "d", "e", "x", "e", "d">> THEN "Indexed"
            ELSE "Modified",
        ValuesOf(args, Keys.time_field))

\* the time range falling through to --after and --before when the --time
\* value does not parse
TimeRangeOf_FallThrough(args, bld) ==
    Let(LAMBDA v :
            IF v.time # <<>> /\ parse_time_range(v.time[1]).some
            THEN parse_time_range(v.time[1])
            ELSE IF v.after = <<>> /\ v.before = <<>> THEN None
            ELSE Let(LAMBDA ts :
                         IF ~ts.some THEN ts
                         ELSE Some([kind |-> IF v.after # <<>> THEN "After" ELSE "Before",
                                    ts |-> ts.value]),
                     parse_date(IF v.after # <<>> THEN v.after[1] ELSE v.before[1], bld)),
        [time |-> ValuesOf(args, Keys.time), after |-> ValuesOf(args, Keys.after),
         before |-> ValuesOf(args, Keys.before)])

\* the time range (src/query/parser.rs:162-180): the first --time value, else
\* the first --after value, else the first --before value
TimeRangeOf(args, bld) ==
    Let(LAMBDA v :
            IF v.time # <<>> THEN parse_time_range(v.time[1])
            ELSE IF v.after = <<>> /\ v.before = <<>> THEN None
            ELSE Let(LAMBDA ts :
                         IF ~ts.some THEN ts
                         ELSE Some([kind |-> IF v.after # <<>> THEN "After" ELSE "Before",
                                    ts |-> ts.value]),
                     parse_date(IF v.after # <<>> THEN v.after[1] ELSE v.before[1], bld)),
        [time |-> ValuesOf(args, Keys.time), after |-> ValuesOf(args, Keys.after),
         before |-> ValuesOf(args, Keys.before)])

\* parse_filters (src/query/parser.rs:118-188)
parse_filters(args, bld) ==
    Let(LAMBDA range :
            IF range = Panic THEN Panic
            ELSE LET include == ValuesOf(args, Keys.path)
                     exclude == ValuesOf(args, Keys.exclude_path)
                     types == ListItems(ValuesOf(args, Keys.type))
                     size == ValuesOf(args, Keys.size)
                 IN  Some([paths |-> [i \in 1..Len(include) |->
                                         [pattern |-> include[i], exclude |-> FALSE]]
                                     \o [i \in 1..Len(exclude) |->
                                         [pattern |-> exclude[i], exclude |-> TRUE]],
                           file_types |-> [i \in 1..Len(types) |-> ToLowercase(types[i])],
                           tags |-> ListItems(ValuesOf(args, Keys.tag)),
                           time |-> IF range.some
                                    THEN Some([field |-> TimeFieldOf(args),
                                               range |-> range.value])
                                    ELSE None,
                           size |-> IF size = <<>> THEN None
                                    ELSE parse_size_filter(size[1])]),
        TimeRangeOf(args, bld))

\* QueryFilters::default()
NoFilters == [paths |-> <<>>, file_types |-> <<>>, tags |-> <<>>,
              time |-> None, size |-> None]

\* a keyword extractor handed to with_keyword_extractor
\* (src/query/parser.rs:50-56); "initial" stands for a closure that keeps the
\* first character of the text
KeywordExtractors == {"none", "initial"}
Extracted(extractor, raw_text) == SubSeq(raw_text, 1, 1)

\* QueryParser::parse (src/query/parser.rs:59-115)
parse(s, extractor, bld) ==
    Let(LAMBDA cap :
            Let(LAMBDA filters :
                    IF filters = Panic THEN [kind |-> "panic", extractor |-> extractor]
                    ELSE Let(LAMBDA raw_text :
                                 [kind |-> "query", extractor |-> extractor,
                                  text |-> IF extractor # "none" /\ raw_text # <<>>
                                           THEN Extracted(extractor, raw_text)
                                           ELSE raw_text,
                                  raw_text |-> raw_text,
                                  filters |-> filters.value],
                             Trim(Join(cap.text_parts))),
                parse_filters(cap.args, bld)),
        Captures(s))

(***************************************************************************)
(* The parser on its own: a caller composes a query string out of words   *)
(* and flags, each with the blank that sets it off from what precedes, and *)
(* hands it to QueryParser::parse.                                         *)
(***************************************************************************)
MaxPieces == 3
Pieces ==
    { \* the word a
      <<" ", "a">>,
      \* --path="a b"
      <<" ", "-", "-", "p", "a", "t", "h", "=", Quote, "a", " ", "b",
      Quote>>,
      \* --exclude-path=b
      <<" ", "-", "-", "e", "x", "c", "l", "u", "d", "e", "-", "p", "a",
      "t", "h", "=", "b">>,
      \* --type=A,b
      <<" ", "-", "-", "t", "y", "p", "e", "=", "A", ",", "b">>,
      \* --tag=x
      <<" ", "-", "-", "t", "a", "g", "=", "x">>,
      \* --time-field=created
      <<" ", "-", "-", "t", "i", "m", "e", "-", "f", "i", "e", "l", "d",
      "=", "c", "r", "e", "a", "t", "e", "d">>,
      \* --time=7d
      <<" ", "-", "-", "t", "i", "m", "e", "=", "7", "d">>,
      \* --time=7x
      <<" ", "-", "-", "t", "i", "m", "e", "=", "7", "x">>,
      \* --after=2024-01-15
      <<" ", "-", "-", "a", "f", "t", "e", "r", "=", "2", "0", "2", "4",
      "-", "0", "1", "-", "1", "5">>,
      \* --after=2024-00-15
      <<" ", "-", "-", "a", "f", "t", "e", "r", "=", "2", "0", "2", "4",
      "-", "0", "0", "-", "1", "5">>,
      \* --before=2024-01-00
      <<" ", "-", "-", "b", "e", "f", "o", "r", "e", "=", "2", "0", "2",
      "4", "-", "0", "1", "-", "0", "0">>,
      \* --before=1969-01-01
      <<" ", "-", "-", "b", "e", "f", "o", "r", "e", "=", "1", "9", "6",
      "9", "-", "0", "1", "-", "0", "1">>,
      \* --size=>1mb
      <<" ", "-", "-", "s", "i", "z", "e", "=", ">", "1", "m", "b">>,
      \* --size=big
      <<" ", "-", "-", "s", "i", "z", "e", "=", "b", "i", "g">>,
      \* --sort=name
      <<" ", "-", "-", "s", "o", "r", "t", "=", "n", "a", "m", "e">> }

RECURSIVE Flatten(_)
Flatten(pieces) == IF pieces = <<>> THEN <<>> ELSE Head(pieces) \o Flatten(Tail(pieces))

Builds == {"debug", "release"}

queryFrame == <<lockVars, regVars, histVars, now, fs, program, segments, writer, searcher,
                tagCache, cacheVars, ret, startVars, request, response>>

\* the caller writes the next piece of the argument of parse
TypePiece(piece) ==
    /\ parsed = NoParse
    /\ Len(input) < MaxPieces
    /\ input' = Append(input, piece)
    /\ UNCHANGED <<build, parsed, queryFrame>>

\* QueryParser::parse(input) (src/query/parser.rs:59-115)
Parse(extractor) ==
    /\ parsed = NoParse
    /\ parsed' = parse(Flatten(input), extractor, build)
    /\ UNCHANGED <<input, build, queryFrame>>

\* the caller turns to its next query
NextQuery ==
    /\ parsed # NoParse
    /\ input' = <<>>
    /\ parsed' = NoParse
    /\ UNCHANGED <<build, queryFrame>>

InitParser ==
    /\ RegistryNew
    /\ HistInit
    /\ NoCalls
    /\ now = 1
    /\ fs = [f \in Files |-> Absent]
    /\ program = "engine"
    /\ IndexEmpty
    /\ NotStarted
    /\ input = <<>>
    /\ build \in Builds
    /\ parsed = NoParse
    /\ request = NoCall
    /\ response = NoCall

NextParser ==
    \/ \E piece \in Pieces : TypePiece(piece)
    \/ \E extractor \in KeywordExtractors : Parse(extractor)
    \/ NextQuery

SpecParser == InitParser /\ [][NextParser]_vars


\* the flags that parse finds in the input
InputArgs == Captures(Flatten(input)).args
\* the pieces of text that parse finds between the flags
InputTextParts == Captures(Flatten(input)).text_parts

\* a date YYYY-MM-DD of the epoch: a year from 1970 on, a month 1..12 and a
\* day 1..31
ValidDate(value) ==
    LET parts == SplitOn(value, "-") IN
    /\ Len(parts) = 3
    /\ ParseI32(parts[1]).some /\ ParseI32(parts[1]).value >= EpochYear
    /\ ParseI32(parts[2]).some /\ ParseI32(parts[2]).value \in 1..12
    /\ ParseI32(parts[3]).some /\ ParseI32(parts[3]).value \in 1..31
AllInvalid(values, Valid(_)) == \A i \in 1..Len(values) : ~Valid(values[i])
ValidTime(value) == parse_time_range(value).some
ValidSize(value) == SizeMatch(ToLowercase(value)).ok

\* C19: parse returns a ParsedQuery for every input; flags whose values
\* cannot be parsed (a malformed --time, --size, --after or --before value,
\* a date with month 0, day 0 or a year before 1970) leave no time filter
\* and no size filter, and flags with unknown keys leave no filter at all.
C19_ParserTotal ==
    parsed # NoParse =>
        /\ parsed.kind = "query"
        /\ ( /\ AllInvalid(ValuesOf(InputArgs, Keys.time), ValidTime)
             /\ AllInvalid(ValuesOf(InputArgs, Keys.after), ValidDate)
             /\ AllInvalid(ValuesOf(InputArgs, Keys.before), ValidDate) )
           => parsed.filters.time = None
        /\ AllInvalid(ValuesOf(InputArgs, Keys.size), ValidSize)
           => parsed.filters.size = None
        /\ (\A i \in 1..Len(InputArgs) : InputArgs[i].key \notin {Keys[k] : k \in DOMAIN Keys})
           => parsed.filters = NoFilters

\* the words of a text, joined by single blanks
SingleSpaced(s) == Join(SplitOn(s, " "))

\* C20: raw_text is the words outside the flags joined by single blanks in
\* their order; without a keyword extractor text equals raw_text; an input
\* without flags has empty filters.
C20_TextFlagSeparation ==
    parsed.kind = "query" =>
        /\ parsed.raw_text = SingleSpaced(Join(InputTextParts))
        /\ parsed.extractor = "none" => parsed.text = parsed.raw_text
        /\ InputArgs = <<>> => parsed.filters = NoFilters


(***************************************************************************)
(* The --size flag on its own: a caller hands parse one --size flag whose  *)
(* value is an operator, a number and a unit, with or without a second     *)
(* number and unit after a dash.                                           *)
(***************************************************************************)
SizeFlag == <<" ", "-", "-", "s", "i", "z", "e", "=">>
SizeOps == {<<>>, <<">">>, <<"<">>, <<"~">>}
SizeNumbers == {<<"1">>, <<"1", ".", "5">>, <<"3">>}
SizeUnits == {<<>>, <<"b">>, <<"k", "b">>, <<"m", "b">>, <<"g", "b">>, <<"t", "b">>}
SizeTails == {<<>>} \cup {<<<<"-">>, n, u>> : n \in SizeNumbers, u \in SizeUnits}

\* the caller writes a --size flag as the argument of parse
TypeSize(op, num, unit, tail) ==
    /\ parsed = NoParse
    /\ input = <<>>
    /\ input' = <<SizeFlag, op, num, unit>> \o tail
    /\ UNCHANGED <<build, parsed, queryFrame>>

NextSize ==
    \/ \E op \in SizeOps, num \in SizeNumbers, unit \in SizeUnits, tail \in SizeTails :
           TypeSize(op, num, unit, tail)
    \/ \E extractor \in KeywordExtractors : Parse(extractor)
    \/ NextQuery

SpecSize == InitParser /\ [][NextSize]_vars

\* the units b, kb, mb and gb
ByteUnits == {<<"b">>, <<"k", "b">>, <<"m", "b">>, <<"g", "b">>}
\* the number of bytes of N<unit>, cut to whole bytes
BytesOf(num, unit) ==
    LET point == Least({i \in 1..Len(num) + 1 : i > Len(num) \/ num[i] = "."})
    IN  parse_size_bytes([int |-> SubSeq(num, 1, point - 1),
                          frac |-> SubSeq(num, point + 1, Len(num))], unit)

\* C22: ">N<unit>" parses to GreaterThan(N*unit), "<N<unit>" and "N<unit>"
\* to LessThan(N*unit), "N<unit>-M<unit>" to Between(N*unit, M*unit), with
\* unit one of b, kb, mb, gb; every other value yields no size filter.
C22_SizeValueParsing ==
    (parsed.kind = "query" /\ Len(input) >= 4 /\ input[1] = SizeFlag) =>
        LET op == input[2]
            num == input[3]
            unit == input[4]
        IN  parsed.filters.size =
                IF Len(input) = 4 /\ unit \in ByteUnits /\ op = <<">">>
                THEN Some([kind |-> "GreaterThan", a |-> BytesOf(num, unit)])
                ELSE IF Len(input) = 4 /\ unit \in ByteUnits /\ op \in {<<>>, <<"<">>}
                THEN Some([kind |-> "LessThan", a |-> BytesOf(num, unit)])
                ELSE IF Len(input) = 7 /\ unit \in ByteUnits /\ op = <<>>
                        /\ input[7] \in ByteUnits
                THEN Some([kind |-> "Between", a |-> BytesOf(num, unit),
                           b |-> BytesOf(input[6], input[7])])
                ELSE None


(***************************************************************************)
(* PathMatcher (src/query/filter.rs:186-231)                               *)
(*                                                                         *)
(* A glob pattern is modelled for the syntax the patterns below use: a     *)
(* character standing for itself, ? for any one character, * for any run   *)
(* of characters (Pattern::matches runs with the default MatchOptions, so  *)
(* a run may hold separators), and [ opening a character class.            *)
(***************************************************************************)
\* Pattern::new(pattern).is_ok() (src/query/filter.rs:195): a class that is
\* never closed is an invalid range pattern
PatternNew(pattern) ==
    \A i \in 1..Len(pattern) :
        pattern[i] = "[" => \E j \in i + 2..Len(pattern) : pattern[j] = "]"

\* Pattern::matches(path) (src/query/filter.rs:215, 221) of a pattern that
\* has no class
GlobMatches(pattern, path) ==
    LET RECURSIVE MatchFrom(_, _)
        MatchFrom(i, j) ==
            IF i > Len(pattern) THEN j > Len(path)
            ELSE IF pattern[i] = "*"
            THEN \E k \in j..Len(path) + 1 : MatchFrom(i + 1, k)
            ELSE /\ j <= Len(path)
                 /\ pattern[i] = "?" \/ pattern[i] = path[j]
                 /\ MatchFrom(i + 1, j + 1)
    IN  MatchFrom(1, 1)

\* PathMatcher::new (src/query/filter.rs:192-200): the filters whose pattern
\* compiles, in their order
PathMatcherNew(filters) == SelectSeq(filters, LAMBDA f : PatternNew(f.pattern))

\* an exclude pattern that does not match counts as an include that does
matches_included_by_default(patterns, path) ==
    LET RECURSIVE Loop(_, _, _)
        Loop(i, included, has_include_patterns) ==
            IF i > Len(patterns) THEN ~has_include_patterns \/ included
            ELSE IF patterns[i].exclude
            THEN IF GlobMatches(patterns[i].pattern, path) THEN FALSE
                 ELSE Loop(i + 1, TRUE, has_include_patterns)
            ELSE Loop(i + 1, included \/ GlobMatches(patterns[i].pattern, path), TRUE)
    IN  IF patterns = <<>> THEN TRUE ELSE Loop(1, FALSE, FALSE)

\* PathMatcher::matches (src/query/filter.rs:204-230)
matches(patterns, path) ==
    LET RECURSIVE Loop(_, _, _)
        Loop(i, included, has_include_patterns) ==
            IF i > Len(patterns) THEN ~has_include_patterns \/ included
            ELSE IF patterns[i].exclude
            THEN IF GlobMatches(patterns[i].pattern, path) THEN FALSE
                 ELSE Loop(i + 1, included, has_include_patterns)
            ELSE Loop(i + 1, included \/ GlobMatches(patterns[i].pattern, path), TRUE)
    IN  IF patterns = <<>> THEN TRUE ELSE Loop(1, FALSE, FALSE)

(***************************************************************************)
(* The matcher on its own: a caller collects path filters in any order,    *)
(* builds a PathMatcher from them and asks it about a path.                *)
(***************************************************************************)
MaxFilters == 3
\* a*, *b, a, ?/?, [a
GlobPatterns == {<<"a", "*">>, <<"*", "b">>, <<"a">>, <<"?", "/", "?">>, <<"[", "a">>}
\* a, b, ab, a/b
MatchPaths == {<<"a">>, <<"b">>, <<"a", "b">>, <<"a", "/", "b">>}

callFrame == <<lockVars, regVars, histVars, now, fs, program, segments, writer, searcher,
               tagCache, cacheVars, ret, startVars, input, build, parsed>>

\* the caller adds PathFilter::include(pattern) or PathFilter::exclude(pattern)
PushFilter(pattern, exclude) ==
    /\ request.op = "matches"
    /\ response = NoCall
    /\ Len(request.filters) < MaxFilters
    /\ request' = [request EXCEPT !.filters =
                       Append(@, [pattern |-> pattern, exclude |-> exclude])]
    /\ UNCHANGED <<response, callFrame>>

\* PathMatcher::new(&filters).matches(path)
Matches ==
    /\ request.op = "matches"
    /\ response = NoCall
    /\ response' = [op |-> "matches",
                    result |-> matches(PathMatcherNew(request.filters), request.path)]
    /\ UNCHANGED <<request, callFrame>>

\* the caller turns to another path and another list
NextMatch(path) ==
    /\ response.op = "matches"
    /\ request' = [op |-> "matches", filters |-> <<>>, path |-> path]
    /\ response' = NoCall
    /\ UNCHANGED callFrame

InitMatcher ==
    /\ RegistryNew
    /\ HistInit
    /\ NoCalls
    /\ now = 1
    /\ fs = [f \in Files |-> Absent]
    /\ program = "engine"
    /\ IndexEmpty
    /\ NotStarted
    /\ input = <<>> /\ build = "release" /\ parsed = NoParse
    /\ request \in [op : {"matches"}, filters : {<<>>}, path : MatchPaths]
    /\ response = NoCall

NextMatcher ==
    \/ \E pattern \in GlobPatterns, exclude \in BOOLEAN : PushFilter(pattern, exclude)
    \/ Matches
    \/ \E path \in MatchPaths : NextMatch(path)

SpecMatcher == InitMatcher /\ [][NextMatcher]_vars

\* the filters of the request that hit its path, among the excludes or
\* among the includes
Hits(exclude) ==
    {i \in 1..Len(request.filters) :
        /\ request.filters[i].exclude = exclude
        /\ PatternNew(request.filters[i].pattern)
        /\ GlobMatches(request.filters[i].pattern, request.path)}
Includes == {i \in 1..Len(request.filters) : ~request.filters[i].exclude}

\* C23: matches returns true iff no exclude pattern matches the path and
\* the list holds no include pattern or one of its include patterns matches
\* the path, whatever the order of the list; with no patterns every path is
\* accepted.
C23_PathMatcherDecision ==
    response.op = "matches" =>
        response.result = (Hits(TRUE) = {} /\ (Includes = {} \/ Hits(FALSE) # {}))

\* the list with one more filter, put after the first i filters
InsertAt(filters, i, f) ==
    SubSeq(filters, 1, i) \o <<f>> \o SubSeq(filters, i + 1, Len(filters))

\* C24: a path that the matcher rejects under a list is rejected under the
\* list with one more exclude pattern, wherever it is put; a list with no
\* include pattern accepts every path that no exclude pattern hits.
C24_PathMatcherMonotone ==
    response.op = "matches" =>
        /\ ~response.result =>
               \A e \in GlobPatterns, i \in 0..Len(request.filters) :
                   ~matches(PathMatcherNew(InsertAt(request.filters, i,
                                                    [pattern |-> e, exclude |-> TRUE])),
                            request.path)
        /\ (Includes = {} /\ Hits(TRUE) = {}) => response.result
\* a path rejected only because no include pattern matches it, under a list
\* that also holds an exclude pattern
C24_Witness ==
    /\ response.op = "matches"
    /\ ~response.result
    /\ Hits(TRUE) = {}
    /\ Includes # {}
    /\ \E i \in 1..Len(request.filters) : request.filters[i].exclude


(***************************************************************************)
(* FilterBuilder (src/query/filter.rs:14-184).  A query is a record: a     *)
(* range over a u64 field, a term of a text field, or a boolean query of   *)
(* clauses, each with its Occur.                                           *)
(***************************************************************************)
\* x - y in 64 bits, and whether y exceeds x
SubU64(x, y) ==
    LET RECURSIVE SubBorrow(_, _, _, _)
        SubBorrow(a, b, i, borrow) ==
            IF i > U64Bytes THEN <<borrow>>
            ELSE <<(a[i] - b[i] - borrow + Byte) % Byte>>
                 \o SubBorrow(a, b, i + 1, IF a[i] - b[i] - borrow < 0 THEN 1 ELSE 0)
    IN  Let(LAMBDA xy : Let(Wrapped, SubBorrow(xy[1], xy[2], 1, 0)), <<x, y>>)
\* u64::saturating_sub(x, y)
SaturatingSub(x, y) ==
    Let(LAMBDA d : IF d.overflow THEN U64(0) ELSE d.bytes, SubU64(x, y))

\* the subtractions wrap instead of saturating
calculate_time_range_wrapping(range, now_secs, bld) ==
    LET Scaled(x, k) ==
            Let(LAMBDA p : [bytes |-> p.bytes, overflow |-> x.overflow \/ p.overflow],
                MulU64(x.bytes, k))
        Last(span) ==
            IF span.overflow /\ bld = "debug" THEN Panic
            ELSE Some(<<SubU64(U64(now_secs), span.bytes).bytes, U64(now_secs)>>)
        n == [bytes |-> range.n, overflow |-> FALSE]
    IN  IF range.kind = "LastHours" THEN Let(Last, Scaled(n, 3600))
        ELSE IF range.kind = "LastDays" THEN Let(Last, Scaled(n, 86400))
        ELSE IF range.kind = "LastWeeks" THEN Let(Last, Scaled(Scaled(n, 7), 86400))
        ELSE IF range.kind = "LastMonths" THEN Let(Last, Scaled(Scaled(n, 30), 86400))
        ELSE IF range.kind = "Between" THEN Some(<<range.a, range.b>>)
        ELSE IF range.kind = "After" THEN Some(<<range.ts, U64Max>>)
        ELSE IF range.kind = "Before" THEN Some(<<U64(0), range.ts>>)
        ELSE IF range.kind = "Today"
        THEN Some(<<MulU64(DivU64(U64(now_secs), 86400), 86400).bytes, U64(now_secs)>>)
        ELSE IF range.kind = "ThisWeek"
        THEN Some(<<SubU64(U64(now_secs), U64(7 * 86400)).bytes, U64(now_secs)>>)
        ELSE Some(<<SubU64(U64(now_secs), U64(30 * 86400)).bytes, U64(now_secs)>>)

\* calculate_time_range (src/query/filter.rs:81-123) at the time now_secs;
\* a product that leaves the 64 bits panics where overflow is checked
calculate_time_range(range, now_secs, bld) ==
    LET Scaled(x, k) ==
            Let(LAMBDA p : [bytes |-> p.bytes, overflow |-> x.overflow \/ p.overflow],
                MulU64(x.bytes, k))
        Last(span) ==
            IF span.overflow /\ bld = "debug" THEN Panic
            ELSE Some(<<SaturatingSub(U64(now_secs), span.bytes), U64(now_secs)>>)
        n == [bytes |-> range.n, overflow |-> FALSE]
    IN  IF range.kind = "LastHours" THEN Let(Last, Scaled(n, 3600))
        ELSE IF range.kind = "LastDays" THEN Let(Last, Scaled(n, 86400))
        ELSE IF range.kind = "LastWeeks" THEN Let(Last, Scaled(Scaled(n, 7), 86400))
        ELSE IF range.kind = "LastMonths" THEN Let(Last, Scaled(Scaled(n, 30), 86400))
        ELSE IF range.kind = "Between" THEN Some(<<range.a, range.b>>)
        ELSE IF range.kind = "After" THEN Some(<<range.ts, U64Max>>)
        ELSE IF range.kind = "Before" THEN Some(<<U64(0), range.ts>>)
        ELSE IF range.kind = "Today"
        THEN Some(<<MulU64(DivU64(U64(now_secs), 86400), 86400).bytes, U64(now_secs)>>)
        ELSE IF range.kind = "ThisWeek"
        THEN Some(<<SaturatingSub(U64(now_secs), U64(7 * 86400)), U64(now_secs)>>)
        ELSE Some(<<SaturatingSub(U64(now_secs), U64(30 * 86400)), U64(now_secs)>>)

\* build_time_query (src/query/filter.rs:64-78), with the field names of
\* src/schema/fields.rs
build_time_query(filter, now_secs, bld) ==
    LET field_name == [Created |-> "created_time", Modified |-> "modified_time",
                       Indexed |-> "indexed_time"]
    IN  Let(LAMBDA r :
                IF ~r.some THEN r
                ELSE Some([kind |-> "Range", field |-> field_name[filter.field],
                           lower |-> [bound |-> "Included", value |-> r.value[1]],
                           upper |-> [bound |-> "Excluded", value |-> r.value[2]]]),
            calculate_time_range(filter.range, now_secs, bld))

\* build_type_query and build_tags_query (src/query/filter.rs:126-142,
\* 167-183): one Should clause per listed text
TermsQuery(field, texts) ==
    [kind |-> "Boolean",
     clauses |-> [i \in 1..Len(texts) |->
                     [occur |-> "Should",
                      query |-> [kind |-> "Term", field |-> field, text |-> texts[i]]]]]

Unbounded == [bound |-> "Unbounded"]
\* build_size_query (src/query/filter.rs:145-164)
build_size_query(filter) ==
    [kind |-> "Range", field |-> "file_size",
     lower |-> IF filter.kind = "GreaterThan" THEN [bound |-> "Excluded", value |-> filter.a]
               ELSE IF filter.kind = "LessThan" THEN Unbounded
               ELSE [bound |-> "Included", value |-> filter.a],
     upper |-> IF filter.kind = "GreaterThan" THEN Unbounded
               ELSE IF filter.kind = "LessThan" THEN [bound |-> "Excluded", value |-> filter.a]
               ELSE [bound |-> "Excluded", value |-> filter.b]]

\* build_filter_query (src/query/filter.rs:25-61): the Must clauses in the
\* order time, type, size, tags, or no query if there is none
build_filter_query(filters, now_secs, bld) ==
    Let(LAMBDA time :
            IF time = Panic THEN Panic
            ELSE Let(LAMBDA queries :
                         IF queries = <<>> THEN None
                         ELSE Some([kind |-> "Boolean",
                                    clauses |-> [i \in 1..Len(queries) |->
                                                    [occur |-> "Must", query |-> queries[i]]]]),
                     (IF time.some THEN <<time.value>> ELSE <<>>)
                     \o (IF filters.file_types # <<>>
                         THEN <<TermsQuery("file_type", filters.file_types)>> ELSE <<>>)
                     \o (IF filters.size.some
                         THEN <<build_size_query(filters.size.value)>> ELSE <<>>)
                     \o (IF filters.tags # <<>>
                         THEN <<TermsQuery("tags", filters.tags)>> ELSE <<>>)),
        IF filters.time.some THEN build_time_query(filters.time.value, now_secs, bld)
        ELSE None)


(***************************************************************************)
(* The time filter on its own: a caller hands parse a --time-field flag    *)
(* or none and one --time, --after or --before flag, and the filter        *)
(* builder compiles the filters that parse returns at the time now.        *)
(***************************************************************************)
\* no --time-field flag, or one
TimeFieldFlags ==
    { \* (none)
      <<>>,
      \*  --time-field=created
      <<" ", "-", "-", "t", "i", "m", "e", "-", "f", "i", "e", "l", "d", "=", "c", "r", "e", "a", "t", "e", "d">>,
      \*  --time-field=indexed
      <<" ", "-", "-", "t", "i", "m", "e", "-", "f", "i", "e", "l", "d", "=", "i", "n", "d", "e", "x", "e", "d">>,
      \*  --time-field=x
      <<" ", "-", "-", "t", "i", "m", "e", "-", "f", "i", "e", "l", "d", "=", "x">> }

\* a --time, --after or --before flag
TimeFlags ==
    { \*  --time=today
      <<" ", "-", "-", "t", "i", "m", "e", "=", "t", "o", "d", "a", "y">>,
      \*  --time=week
      <<" ", "-", "-", "t", "i", "m", "e", "=", "w", "e", "e", "k">>,
      \*  --time=this-month
      <<" ", "-", "-", "t", "i", "m", "e", "=", "t", "h", "i", "s", "-", "m", "o", "n", "t", "h">>,
      \*  --time=24h
      <<" ", "-", "-", "t", "i", "m", "e", "=", "2", "4", "h">>,
      \*  --time=7d
      <<" ", "-", "-", "t", "i", "m", "e", "=", "7", "d">>,
      \*  --time=1w
      <<" ", "-", "-", "t", "i", "m", "e", "=", "1", "w">>,
      \*  --time=3m
      <<" ", "-", "-", "t", "i", "m", "e", "=", "3", "m">>,
      \*  --time=0d
      <<" ", "-", "-", "t", "i", "m", "e", "=", "0", "d">>,
      \*  --time=4294967295h
      <<" ", "-", "-", "t", "i", "m", "e", "=", "4", "2", "9", "4", "9", "6", "7", "2", "9", "5", "h">>,
      \*  --time=4294967295m
      <<" ", "-", "-", "t", "i", "m", "e", "=", "4", "2", "9", "4", "9", "6", "7", "2", "9", "5", "m">>,
      \*  --time=4294967296d
      <<" ", "-", "-", "t", "i", "m", "e", "=", "4", "2", "9", "4", "9", "6", "7", "2", "9", "6", "d">>,
      \*  --after=2024-01-15
      <<" ", "-", "-", "a", "f", "t", "e", "r", "=", "2", "0", "2", "4", "-", "0", "1", "-", "1", "5">>,
      \*  --before=2024-01-15
      <<" ", "-", "-", "b", "e", "f", "o", "r", "e", "=", "2", "0", "2", "4", "-", "0", "1", "-", "1", "5">> }

\* SystemTime::now() in seconds: the epoch, an hour into the second day, and
\* a day of 2023
Clocks == {0, 90000, 1700000000}

\* the caller writes the flags as the argument of parse
TypeTime(field_flag, time_flag) ==
    /\ parsed = NoParse
    /\ input = <<>>
    /\ input' = <<field_flag, time_flag>>
    /\ UNCHANGED <<build, parsed, queryFrame>>

\* FilterBuilder::build_filter_query(&parsed.filters)
\* (src/engine/core.rs:124-125)
BuildFilterQuery ==
    /\ parsed.kind = "query"
    /\ response = NoCall
    /\ request' = [op |-> "build_filter_query", filters |-> parsed.filters]
    /\ response' = [op |-> "build_filter_query",
                    tree |-> build_filter_query(parsed.filters, now, build)]
    /\ UNCHANGED callFrame

InitTime ==
    /\ RegistryNew
    /\ HistInit
    /\ NoCalls
    /\ now \in Clocks
    /\ fs = [f \in Files |-> Absent]
    /\ program = "engine"
    /\ IndexEmpty
    /\ NotStarted
    /\ input = <<>>
    /\ build \in Builds
    /\ parsed = NoParse
    /\ request = NoCall
    /\ response = NoCall

NextTime ==
    \/ \E field_flag \in TimeFieldFlags, time_flag \in TimeFlags :
           TypeTime(field_flag, time_flag)
    \/ \E extractor \in KeywordExtractors : Parse(extractor)
    \/ BuildFilterQuery

SpecTime == InitTime /\ [][NextTime]_vars

\* now - n * unit seconds, or 0 where that is negative, for a u64 n
SecondsBefore(n, unit) ==
    IF /\ \A i \in 5..U64Bytes : n[i] = 0
       /\ n[4] < 128
       /\ BytesNat(n) <= 2147483647 \div unit
       /\ BytesNat(n) * unit <= now
    THEN U64(now - BytesNat(n) * unit)
    ELSE U64(0)

\* C25: every time range resolves to a half-open interval [lo, hi) on the
\* selected time field, Modified unless --time-field names another:
\* LastHours, LastDays, LastWeeks and LastMonths(n) give hi = now and lo =
\* now minus n hours, days, weeks of 7 days or months of 30 days, 0 where
\* that is negative, without overflow; Today gives lo = the start of the
\* day of now and hi = now; ThisWeek and ThisMonth are the last 7 and 30
\* days; Before(t) gives [0, t) and After(t) gives lo = t.
C25_TimeRangeResolution ==
    (response.op = "build_filter_query" /\ parsed.filters.time.some) =>
        /\ response.tree.some
        /\ LET range == parsed.filters.time.value.range
               clause == response.tree.value.clauses[1].query
               named == SubSeq(input[1], 15, Len(input[1]))
               lo == clause.lower.value
               hi == clause.upper.value
           IN  /\ clause.kind = "Range"
               /\ clause.field = IF named = <<"c", "r", "e", "a", "t", "e", "d">>
                                 THEN "created_time"
                                 ELSE IF named = <<"i", "n", "d", "e", "x", "e", "d">>
                                 THEN "indexed_time"
                                 ELSE "modified_time"
               /\ clause.lower.bound = "Included"
               /\ clause.upper.bound = "Excluded"
               /\ range.kind = "LastHours" =>
                      lo = SecondsBefore(range.n, 3600) /\ hi = U64(now)
               /\ range.kind = "LastDays" =>
                      lo = SecondsBefore(range.n, 86400) /\ hi = U64(now)
               /\ range.kind = "LastWeeks" =>
                      lo = SecondsBefore(range.n, 7 * 86400) /\ hi = U64(now)
               /\ range.kind = "LastMonths" =>
                      lo = SecondsBefore(range.n, 30 * 86400) /\ hi = U64(now)
               /\ range.kind = "Today" =>
                      lo = U64((now \div 86400) * 86400) /\ hi = U64(now)
               /\ range.kind = "ThisWeek" =>
                      lo = SecondsBefore(U64(7), 86400) /\ hi = U64(now)
               /\ range.kind = "ThisMonth" =>
                      lo = SecondsBefore(U64(30), 86400) /\ hi = U64(now)
               /\ range.kind = "Before" => lo = U64(0) /\ hi = range.ts
               /\ range.kind = "After" => lo = range.ts
\* the last 24 hours, an hour into the second day
C25_Witness ==
    /\ response.op = "build_filter_query"
    /\ parsed.filters.time.some
    /\ parsed.filters.time.value.range.kind = "LastHours"
    /\ parsed.filters.time.value.field = "Created"
    /\ response.tree.some
    /\ response.tree.value.clauses[1].query.lower.value = U64(3600)


(***************************************************************************)
(* What the searcher matches a query against (src/schema/mod.rs:16-57).    *)
(* file_type is a STRING field: its one term is the stored text.  The u64  *)
(* fields are FAST fields: a range is decided on the stored number.  tags  *)
(* is a text field with the jieba tokenizer: its terms are the words that  *)
(* the tokenizer cuts each stored tag into.                                *)
(***************************************************************************)
\* the words of the dictionary that the tags of the model are made of; a
\* letter stands for a character
JiebaWords == {<<"k", "x">>, <<"k", "y">>, <<"k", "z">>, <<"k", "x", "k", "y">>}

\* the tokens of a word of the dictionary (src/schema/mod.rs:20-25, 34): the
\* tokenizer cuts in search mode, which gives the words of two characters
\* inside a longer word, those of three inside a word of more than three,
\* and then the word
JiebaTokens(word) ==
    ({SubSeq(word, g[1], g[1] + g[2] - 1) :
         g \in {h \in (1..Len(word)) \X {2, 3} :
                   h[2] < Len(word) /\ h[1] + h[2] - 1 <= Len(word)}}
     \cap JiebaWords)
    \cup {word}

\* x < y for two u64
LessU64(x, y) == SubU64(x, y).overflow

\* a document matches a query
RECURSIVE QueryMatches(_, _)
QueryMatches(query, doc) ==
    IF query.kind = "All" THEN TRUE
    ELSE IF query.kind = "Range"
    THEN /\ \/ query.lower.bound = "Unbounded"
            \/ query.lower.bound = "Included" /\ ~LessU64(doc[query.field], query.lower.value)
            \/ query.lower.bound = "Excluded" /\ LessU64(query.lower.value, doc[query.field])
         /\ \/ query.upper.bound = "Unbounded"
            \/ query.upper.bound = "Excluded" /\ LessU64(doc[query.field], query.upper.value)
    ELSE IF query.kind = "Term"
    THEN IF query.field = "tags"
         THEN \E i \in 1..Len(doc.tags) : query.text \in JiebaTokens(doc.tags[i])
         ELSE query.text = doc[query.field]
    ELSE LET must == {i \in 1..Len(query.clauses) : query.clauses[i].occur = "Must"}
         IN  /\ \A i \in must : QueryMatches(query.clauses[i].query, doc)
             /\ must = {} => \E i \in 1..Len(query.clauses) :
                                 QueryMatches(query.clauses[i].query, doc)


(***************************************************************************)
(* The filter tree on its own: a caller hands parse up to MaxFlags flags   *)
(* of the filters that are compiled, the filter builder compiles what      *)
(* parse returns, and a searcher over an index that holds the documents    *)
(* StoredDocs collects those that match the tree.                          *)
(***************************************************************************)
MaxFlags == 2
\* a flag of a filter that is compiled into the tree, or none
FilterFlags ==
    { \* (none)
      <<>>,
      \*  --type=A,b
      <<" ", "-", "-", "t", "y", "p", "e", "=", "A", ",", "b">>,
      \*  --type=c
      <<" ", "-", "-", "t", "y", "p", "e", "=", "c">>,
      \*  --size=>1b
      <<" ", "-", "-", "s", "i", "z", "e", "=", ">", "1", "b">>,
      \*  --size=2b
      <<" ", "-", "-", "s", "i", "z", "e", "=", "2", "b">>,
      \*  --size=1b-3b
      <<" ", "-", "-", "s", "i", "z", "e", "=", "1", "b", "-", "3", "b">>,
      \*  --tag=kx
      <<" ", "-", "-", "t", "a", "g", "=", "k", "x">>,
      \*  --tag=kxky
      <<" ", "-", "-", "t", "a", "g", "=", "k", "x", "k", "y">>,
      \*  --tag=kz,ky
      <<" ", "-", "-", "t", "a", "g", "=", "k", "z", ",", "k", "y">>,
      \*  --time=24h
      <<" ", "-", "-", "t", "i", "m", "e", "=", "2", "4", "h">>,
      \*  --time-field=created
      <<" ", "-", "-", "t", "i", "m", "e", "-", "f", "i", "e", "l", "d", "=", "c", "r", "e", "a", "t", "e", "d">>,
      \*  --before=1970-01-02
      <<" ", "-", "-", "b", "e", "f", "o", "r", "e", "=", "1", "9", "7", "0", "-", "0", "1", "-", "0", "2">> }

\* the stored fields of the documents of the index
StoredDocs ==
    [file_type : {<<"a">>, <<"c">>},
     file_size : {U64(1), U64(2), U64(3)},
     modified_time : {U64(3599), U64(3600), U64(90000)},
     created_time : {U64(86399), U64(86400)},
     indexed_time : {U64(90000)},
     tags : {<<>>, <<<<"k", "x">>>>, <<<<"k", "x", "k", "y">>>>}]

\* the caller writes a flag, or nothing, as the next piece of the argument
\* of parse
TypeFlag(flag) ==
    /\ parsed = NoParse
    /\ Len(input) < MaxFlags
    /\ input' = Append(input, flag)
    /\ UNCHANGED <<build, parsed, queryFrame>>

\* searcher.search(&tree, ..) (src/engine/core.rs:142) over StoredDocs
Collect ==
    /\ response.op = "build_filter_query"
    /\ response.tree.some
    /\ response' = [op |-> "collect", tree |-> response.tree,
                    hits |-> {d \in StoredDocs : QueryMatches(response.tree.value, d)}]
    /\ UNCHANGED <<request, callFrame>>

InitFilter ==
    /\ RegistryNew
    /\ HistInit
    /\ NoCalls
    /\ now = 90000
    /\ fs = [f \in Files |-> Absent]
    /\ program = "engine"
    /\ IndexEmpty
    /\ NotStarted
    /\ input = <<>>
    /\ build \in Builds
    /\ parsed = NoParse
    /\ request = NoCall
    /\ response = NoCall

NextFilter ==
    \/ \E flag \in FilterFlags : TypeFlag(flag)
    \/ \E extractor \in KeywordExtractors : Parse(extractor)
    \/ BuildFilterQuery
    \/ Collect

SpecFilter == InitFilter /\ [][NextFilter]_vars

\* the elements of a list
Listed(list) == {list[i] : i \in 1..Len(list)}

\* a document satisfies the filters that the tree is compiled from, each
\* evaluated on the stored fields
Satisfies(doc, filters) ==
    /\ filters.time.some =>
           LET r == calculate_time_range(filters.time.value.range, now, build).value
               t == doc[IF filters.time.value.field = "Created" THEN "created_time"
                        ELSE IF filters.time.value.field = "Indexed" THEN "indexed_time"
                        ELSE "modified_time"]
           IN  ~LessU64(t, r[1]) /\ LessU64(t, r[2])
    /\ filters.file_types # <<>> => doc.file_type \in Listed(filters.file_types)
    /\ filters.size.some =>
           LET size == filters.size.value IN
           IF size.kind = "GreaterThan" THEN LessU64(size.a, doc.file_size)
           ELSE IF size.kind = "LessThan" THEN LessU64(doc.file_size, size.a)
           ELSE ~LessU64(doc.file_size, size.a) /\ LessU64(doc.file_size, size.b)
    /\ filters.tags # <<>> => Listed(filters.tags) \cap Listed(doc.tags) # {}

\* C26: with no time, type, size or tag filter build_filter_query yields no
\* tree; otherwise a document passes the tree iff it satisfies every filter
\* that is present, evaluated on its stored fields: the time field in
\* [lo, hi), file_type one of the listed types, file_size above, below or
\* within the bounds, and one of the listed tags among its tags.
C26_FilterTreeVersusFields ==
    /\ response.op = "build_filter_query" =>
           (response.tree = None) =
               (/\ ~request.filters.time.some
                /\ request.filters.file_types = <<>>
                /\ ~request.filters.size.some
                /\ request.filters.tags = <<>>)
    /\ response.op = "collect" =>
           response.hits = {d \in StoredDocs : Satisfies(d, request.filters)}


(***************************************************************************)
(* SearchEngine::search (src/engine/core.rs:94-187, 284-311)               *)
(***************************************************************************)
\* the fields of a document of the engine as the index holds them
\* (src/engine/core.rs:389-416): the canonical path of a file is / and its
\* name, another spelling its name alone; the watched files are text files;
\* the time of creation is taken to be that of the last modification
StoredFields(d) ==
    LET Chars(tag) == IF tag = "kx" THEN <<"k", "x">> ELSE <<"k", "y">>
    IN  [path |-> IF d.path.form = "canon" THEN <<"/", d.path.file>> ELSE <<d.path.file>>,
         title |-> <<d.path.file>>,
         body |-> <<d.body>>,
         tags |-> [i \in 1..Len(d.tags) |-> Chars(d.tags[i])],
         file_type |-> <<"t", "x", "t">>,
         file_size |-> U64(d.file_size),
         modified_time |-> U64(d.modified_time),
         created_time |-> U64(d.modified_time),
         indexed_time |-> U64(d.indexed_time)]

\* the extractor's failure leaves the text itself as the one keyword
SearchKeywords_TextOnFailure(extractor, text) ==
    IF text = <<>> \/ extractor = "none" THEN <<>>
    ELSE IF extractor = "err" THEN <<text>>
    ELSE IF text = <<"x">> THEN <<<<"k", "x">>>> ELSE <<<<"k", "y">>>>

\* the keywords of a search (src/engine/core.rs:105-113).  extractor is
\* "none" if the request does not ask for keywords or the engine has no
\* extractor, "ok" if extract answers the keywords of the text, and "err"
\* if it answers Err
SearchKeywords(extractor, text) ==
    IF text = <<>> \/ extractor # "ok" THEN <<>>
    ELSE IF text = <<"x">> THEN <<<<"k", "x">>>> ELSE <<<<"k", "y">>>>

\* build_text_query (src/engine/core.rs:284-311): every document for an
\* empty text; an error for a text the tantivy query parser rejects, here one
\* with an open parenthesis; else the documents with one of the words in the
\* title, the body or the tags
build_text_query(text, keywords) ==
    LET kw_text == Join(keywords)
        query_text == IF keywords = <<>> THEN text
                      ELSE IF text = <<>> THEN kw_text
                      ELSE text \o <<" ">> \o kw_text
        words == SelectSeq(SplitOn(query_text, " "), LAMBDA w : w # <<>>)
        fields == <<"title", "body", "tags">>
    IN  IF query_text = <<>> THEN Some([kind |-> "All"])
        ELSE IF \E i \in 1..Len(query_text) : query_text[i] = "(" THEN None
        ELSE Some([kind |-> "Boolean",
                   clauses |-> [i \in 1..Len(words) * 3 |->
                       [occur |-> "Should",
                        query |-> [kind |-> "Term", field |-> fields[((i - 1) % 3) + 1],
                                   text |-> words[((i - 1) \div 3) + 1]]]]])

\* a collector without a limit
Take_All(list, n) == list

\* the first n elements of a sequence: what TopDocs::with_limit(n) collects
\* of the ranked matches (src/engine/core.rs:140), and what the loop over
\* them keeps until results.len() >= limit (src/engine/core.rs:165-167)
Take(list, n) == SubSeq(list, 1, IF n < Len(list) THEN n ELSE Len(list))

\* search (src/engine/core.rs:94-187) on the segments the reader has loaded.
\* The documents of the model that match a query score alike, so TopDocs
\* ranks them by their address.
search(srch, req, now_secs, bld) ==
    LET parsed_query == parse(req.query, "none", bld)
        keywords == SearchKeywords(req.extractor, parsed_query.text)
        text_query == build_text_query(parsed_query.text, keywords)
        filter_query == build_filter_query(parsed_query.filters, now_secs, bld)
        final_query == IF filter_query.some
                       THEN [kind |-> "Boolean",
                             clauses |-> <<[occur |-> "Must", query |-> text_query.value],
                                           [occur |-> "Must", query |-> filter_query.value]>>]
                       ELSE text_query.value
        docs == [i \in 1..Len(AliveEntries(srch)) |-> StoredFields(AliveEntries(srch)[i].doc)]
        search_results == Take(SelectSeq(docs, LAMBDA d : QueryMatches(final_query, d)),
                               req.limit + req.offset)
        path_matcher == PathMatcherNew(parsed_query.filters.paths)
        accepted == SelectSeq(SubSeq(search_results, req.offset + 1, Len(search_results)),
                              LAMBDA d : matches(path_matcher, d.path))
    IN  IF parsed_query.kind = "panic" \/ filter_query = Panic THEN [op |-> "search", panic |-> TRUE]
        ELSE IF ~text_query.some
        THEN [op |-> "search", ok |-> FALSE, error |-> "QueryParse", keywords |-> keywords]
        ELSE [op |-> "search", ok |-> TRUE,
              keywords |-> keywords,
              results |-> [i \in 1..Len(Take(accepted, req.limit)) |->
                              Take(accepted, req.limit)[i].path],
              total |-> Len(search_results),
              pagination |-> [offset |-> req.offset, limit |-> req.limit,
                              has_more |-> Len(search_results) > req.offset + req.limit]]


(***************************************************************************)
(* The engine under queries: a caller indexes and deletes the two files,   *)
(* the reader reloads, and search and is_indexed are called in between.    *)
(* An index_file may fail at add_document; every commit succeeds.          *)
(***************************************************************************)
MaxLimit == 2
SearchQueries ==
    { <<>>,
      <<"x">>,
      <<"(">>,
      \* --exclude-path=/a
      <<" ", "-", "-", "e", "x", "c", "l", "u", "d", "e", "-", "p", "a", "t", "h", "=",
        "/", "a">>,
      \* --path=/b
      <<" ", "-", "-", "p", "a", "t", "h", "=", "/", "b">>,
      \* --size=>1b
      <<" ", "-", "-", "s", "i", "z", "e", "=", ">", "1", "b">> }
Extractors == {"none", "ok", "err"}

\* a call of search (src/engine/core.rs:94): it takes &self and reads the
\* reader's searcher.  The caller makes one query at a time.
Search(query, limit, offset, extractor) ==
    /\ program = "engine"
    /\ response = NoCall
    /\ request' = [op |-> "search", query |-> query, limit |-> limit, offset |-> offset,
                   extractor |-> extractor]
    /\ response' = search(searcher, request', now, build)
    /\ UNCHANGED callFrame

\* a call of is_indexed (src/engine/core.rs:257)
IsIndexed(p) ==
    /\ program = "engine"
    /\ response = NoCall
    /\ request' = [op |-> "is_indexed", path |-> p]
    /\ response' = [op |-> "is_indexed", found |-> is_indexed(searcher, p)]
    /\ UNCHANGED callFrame

\* the caller is done with the response
DropResponse ==
    /\ response # NoCall
    /\ request' = NoCall
    /\ response' = NoCall
    /\ UNCHANGED callFrame

InitSearch ==
    /\ RegistryNew
    /\ HistInit
    /\ NoCalls
    /\ now = 1
    /\ fs = [f \in Files |-> FileOf(1, IF f = "a" THEN "x" ELSE "y")]
    /\ program = "engine"
    /\ IndexEmpty
    /\ NotStarted
    /\ NoQuery

NextSearch ==
    \/ \E f \in Files, o \in {"ok", "add_err"} : index_file(CanonPath(f), o)
    \/ \E f \in Files : delete_file(CanonPath(f), TRUE)
    \/ ReaderReload
    \/ \E q \in SearchQueries, limit \in 1..MaxLimit, offset \in 0..1, e \in Extractors :
          Search(q, limit, offset, e)
    \/ \E p \in Paths : IsIndexed(p)
    \/ DropResponse

SpecSearch == InitSearch /\ [][NextSearch]_vars


\* the documents the searcher holds that match the text and the filter tree
\* of the request, in rank order, and the paths among them that the path
\* filters of the request accept
Ranked(srch, req) ==
    LET q == parse(req.query, "none", build)
        text_query == build_text_query(q.text, SearchKeywords(req.extractor, q.text))
        tree == build_filter_query(q.filters, now, build)
        docs == [i \in 1..Len(AliveEntries(srch)) |-> StoredFields(AliveEntries(srch)[i].doc)]
    IN  SelectSeq(docs, LAMBDA d : /\ QueryMatches(text_query.value, d)
                                   /\ tree.some => QueryMatches(tree.value, d))
Accepted(srch, req) ==
    LET q == parse(req.query, "none", build)
        hits == SelectSeq(Ranked(srch, req),
                          LAMBDA d : matches(PathMatcherNew(q.filters.paths), d.path))
    IN  [i \in 1..Len(hits) |-> hits[i].path]

\* a step is a call of search that answers a response
Searched == /\ response = NoCall
            /\ response'.op = "search"
            /\ response'.ok

\* C27: a search returns the accepted candidates after the first offset
\* accepted ones, at most limit of them, in rank order: candidates the path
\* filters reject count neither against offset nor against limit
C27_SearchPagination ==
    [][Searched =>
          response'.results =
              Take(SubSeq(Accepted(searcher, request'), request'.offset + 1,
                          Len(Accepted(searcher, request'))),
                   request'.limit)]_vars

\* C28: the total of a search response is the number of live documents that
\* match the text and the filter tree, whatever the path filters, the offset
\* and the limit
C28_TotalBeforePostFilter ==
    [][Searched => response'.total = Len(Ranked(searcher, request'))]_vars


\* a step is a call of search or of is_indexed
Queried == response = NoCall /\ response' # NoCall

\* C29: a call of search or is_indexed, answering a result or an error,
\* leaves the segments, the pending operations of the writer, the reader's
\* searcher, the tag cache, the file-meta entries and the registry as they
\* were; a search whose keyword extractor fails answers with no keywords,
\* and the only error it answers is QueryParse
C29_QueriesReadOnly ==
    [][Queried =>
          /\ UNCHANGED <<segments, writer, searcher, tagCache, fileMeta, regVars>>
          /\ (response'.op = "search" /\ request'.extractor = "err")
                => /\ response'.keywords = <<>>
                   /\ response'.ok \/ response'.error = "QueryParse"
                   /\ response' = search(searcher, [request' EXCEPT !.extractor = "none"],
                                         now, build)]_vars

\* a search with a failing keyword extractor has answered over an index that
\* holds documents
C29_Witness ==
    /\ response.op = "search"
    /\ request.extractor = "err"
    /\ request.query = <<"x">>
    /\ response.ok
    /\ response.results # <<>>
    /\ LiveDocs(segments) # {}


\* the live documents of a file
LiveOf(segs, f) == {d \in LiveDocs(segs) : d.path.file = f}

\* C30: an index_file that returns an error leaves the live documents as
\* they were, and the next successful index_file or delete_file, on another
\* file, leaves the live documents of the file of the failed call as they
\* were: the failed call left no delete pending that this commit applies
C30_FailedIndexFileHarmless ==
    [][/\ (ret' # ret /\ ret'.op = "index_file" /\ ~ret'.ok)
            => LiveDocs(segments') = LiveDocs(segments)
       /\ (/\ ret.op = "index_file" /\ ~ret.ok
           /\ ret'.op \in {"index_file", "delete_file"} /\ ret'.ok
           /\ ret'.arg.file # ret.arg.file)
            => LiveOf(segments', ret.arg.file) = LiveOf(segments, ret.arg.file)]_vars


(***************************************************************************)
(* The registry's interface, call by call: every call runs under the       *)
(* registry's write lock (src/registry.rs:63, 91, 100), so the calls of    *)
(* the threads come one after another.  request keeps the call made last   *)
(* and response what it returned; the response of try_start_processing     *)
(* also keeps the response of the call before it.                          *)
(***************************************************************************)
registryCallFrame == <<lockVars, scan_completed, pending_events, histVars, now, fs, idxVars, cacheVars,
                       startVars, input, build, parsed>>

\* a call of try_start_processing(p, t) (src/registry.rs:62-87)
CallTryStart(p, t) ==
    /\ request' = [op |-> "try_start_processing", path |-> p, time |-> t]
    /\ response' = [op |-> "try_start_processing",
                    granted |-> TryStartGranted(files, p, t),
                    last |-> IF response.op = "try_start_processing"
                             THEN [op |-> response.op] ELSE response]
    /\ files' = TryStartFiles(files, p, t, now)
    /\ UNCHANGED registryCallFrame

\* a call of finish_processing(p) (src/registry.rs:90-96)
CallFinish(p) ==
    /\ request' = [op |-> "finish_processing", path |-> p]
    /\ response' = [op |-> "finish_processing"]
    /\ files' = FinishFiles(files, p, now)
    /\ UNCHANGED registryCallFrame

\* a call of mark_deleted(p) (src/registry.rs:99-102); the response keeps
\* the entry it removed
CallMarkDeleted(p) ==
    /\ request' = [op |-> "mark_deleted", path |-> p]
    /\ response' = [op |-> "mark_deleted", path |-> p,
                    removed |-> IF p \in DOMAIN files THEN <<files[p]>> ELSE <<>>]
    /\ files' = MarkDeletedFiles(files, p)
    /\ UNCHANGED registryCallFrame

NextCalls ==
    \/ \E p \in RegistryKeys, t \in Times : CallTryStart(p, t)
    \/ \E p \in RegistryKeys : CallFinish(p)
    \/ \E p \in RegistryKeys : CallMarkDeleted(p)
    \/ Tick

SpecCalls == InitRegistry /\ [][NextCalls]_vars

\* a step is a call of the registry's operation op
Called(op) == now' = now /\ request'.op = op

\* C32: try_start_processing(p, t) returns true iff the registry has no
\* entry for p, or the entry is not in flight and its observed mtime is less
\* than t; granted, it leaves the entry in flight with the observed mtime t;
\* refused, it leaves the registry as it was
C32_TryStartDecision ==
    [][Called("try_start_processing") =>
          LET p == request'.path
              t == request'.time
          IN  /\ response'.granted <=>
                    \/ p \notin DOMAIN files
                    \/ ~files[p].processing /\ files[p].modified_time < t
              /\ response'.granted =>
                    /\ p \in DOMAIN files'
                    /\ files'[p].processing
                    /\ files'[p].modified_time = t
                    /\ \A q \in DOMAIN files' \ {p} : q \in DOMAIN files /\ files'[q] = files[q]
                    /\ DOMAIN files \subseteq DOMAIN files'
              /\ ~response'.granted => regVars' = regVars
              /\ <<scan_completed, pending_events>>' = <<scan_completed, pending_events>>]_vars

\* a call was granted for an entry that was there, with a later mtime, while
\* the entry of the other spelling is in flight
C32_Witness ==
    /\ request.op = "try_start_processing"
    /\ response.granted
    /\ response.last.op = "finish_processing"
    /\ request.time = MaxTime
    /\ \E q \in DOMAIN files : q # request.path /\ files[q].processing


\* C33 as claimed: finish_processing(p) changes nothing but the in-flight
\* marker of p: the entry of p is as it was but for processing = false, all
\* else of the registry is as it was, and nothing changes when p has no entry
C33_FinishClearsFlagOnly ==
    [][Called("finish_processing") =>
          LET p == request'.path
          IN  /\ files' = IF p \in DOMAIN files
                          THEN [files EXCEPT ![p].processing = FALSE]
                          ELSE files
              /\ <<scan_completed, pending_events>>' = <<scan_completed, pending_events>>]_vars

\* C33 amended: finish_processing(p) clears the in-flight marker of p and
\* stamps the entry's processed_time with the clock; it leaves p's observed
\* mtime, the entries of the other paths, the pending queue and
\* scan_completed as they were, and changes nothing when p has no entry
C33_FinishClearsFlagAndStamps ==
    [][Called("finish_processing") =>
          LET p == request'.path
          IN  /\ DOMAIN files' = DOMAIN files
              /\ \A q \in DOMAIN files \ {p} : files'[q] = files[q]
              /\ p \in DOMAIN files =>
                    /\ ~files'[p].processing
                    /\ files'[p].modified_time = files[p].modified_time
                    /\ files'[p].processed_time = now
              /\ <<scan_completed, pending_events>>' = <<scan_completed, pending_events>>]_vars

\* finish_processing has cleared the marker of an entry that was granted
\* before the clock advanced, while another entry is in flight
C33_Witness ==
    /\ request.op = "finish_processing"
    /\ request.path \in DOMAIN files
    /\ ~files[request.path].processing
    /\ files[request.path].modified_time = 1
    /\ files[request.path].processed_time = MaxTime
    /\ \E q \in DOMAIN files : files[q].processing


\* C36: mark_deleted(p) leaves no entry for p and the other entries as they
\* were, and the try_start_processing(p, t) that follows it is granted for
\* every t, whatever mtime the removed entry had observed, and leaves the
\* entry of p in flight with the observed mtime t
C36_GrantedAfterMarkDeleted ==
    [][/\ Called("mark_deleted") =>
             /\ DOMAIN files' = DOMAIN files \ {request'.path}
             /\ \A q \in DOMAIN files' : files'[q] = files[q]
       /\ (/\ Called("try_start_processing")
           /\ response'.last.op = "mark_deleted"
           /\ response'.last.path = request'.path) =>
             /\ response'.granted
             /\ request'.path \in DOMAIN files'
             /\ files'[request'.path].processing
             /\ files'[request'.path].modified_time = request'.time]_vars

\* a path is granted right after mark_deleted removed its entry, with an
\* mtime older than the one the removed entry had observed
C36_Witness ==
    /\ request.op = "try_start_processing"
    /\ response.granted
    /\ response.last.op = "mark_deleted"
    /\ response.last.path = request.path
    /\ response.last.removed # <<>>
    /\ response.last.removed[1].modified_time > request.time


(***************************************************************************)
(* The pending queue of the registry, call by call (src/registry.rs:       *)
(* 105-128).  duringScan keeps the events that were added while            *)
(* scan_completed was false, and drained what the calls of complete_scan   *)
(* returned, one after another.                                            *)
(***************************************************************************)
\* the events one history adds to the queue
MaxPending == 2

\* add_pending_event pushing whatever scan_completed says
PendingAfterAdd_Always(queue, completed, ev) == Append(queue, ev)

\* the queue add_pending_event leaves behind (src/registry.rs:105-115)
PendingAfterAdd(queue, completed, ev) ==
    IF ~completed THEN Append(queue, ev) ELSE queue

pendingFrame == <<lockVars, files, histVars, now, fs, idxVars, cacheVars, mainPc, watcherPc, rx,
                  signal, visited, input, build, parsed>>

\* a call of add_pending_event(path, event_type) (src/registry.rs:105-115)
add_pending_event(p, type) ==
    LET ev == [path |-> p, event_type |-> type, timestamp |-> now]
    IN  /\ ~scan_completed => Len(duringScan) < MaxPending
        /\ request' = [op |-> "add_pending_event", event |-> ev]
        /\ response' = [op |-> "add_pending_event"]
        /\ pending_events' = PendingAfterAdd(pending_events, scan_completed, ev)
        /\ duringScan' = IF scan_completed THEN duringScan ELSE Append(duringScan, ev)
        /\ UNCHANGED <<scan_completed, drained, pendingFrame>>

\* a call of complete_scan (src/registry.rs:118-122)
complete_scan ==
    /\ request' = [op |-> "complete_scan"]
    /\ response' = [op |-> "complete_scan", events |-> pending_events]
    /\ scan_completed' = TRUE
    /\ pending_events' = <<>>
    /\ drained' = drained \o pending_events
    /\ UNCHANGED <<duringScan, pendingFrame>>

NextPending ==
    \/ \E f \in Files, type \in EventTypes : add_pending_event(RawPath(f), type)
    \/ complete_scan
    \/ Tick

SpecPending == InitRegistry /\ [][NextPending]_vars

\* C34: the events added while scan_completed was false are, in the order
\* they were added, those the calls of complete_scan have returned followed
\* by those still in the queue, so each is returned by exactly one call; an
\* event added after a complete_scan changes nothing; scan_completed never
\* returns to false; and once it is true the queue is empty, so a further
\* complete_scan returns the empty list
C34_PendingQueueProtocol ==
    [][/\ drained' \o pending_events' = duringScan'
       /\ scan_completed => scan_completed'
       /\ scan_completed' => pending_events' = <<>>
       /\ Called("complete_scan") =>
             /\ response'.events = pending_events
             /\ scan_completed'
             /\ scan_completed => response'.events = <<>>
       /\ Called("add_pending_event") =>
             /\ scan_completed' = scan_completed
             /\ pending_events' = IF scan_completed THEN <<>>
                                  ELSE Append(pending_events, request'.event)]_vars

\* complete_scan has returned two events in the order they were added,
\* and an event added after it has been dropped
C34_Witness ==
    /\ request.op = "add_pending_event"
    /\ scan_completed
    /\ pending_events = <<>>
    /\ Len(drained) = 2
    /\ drained[1] # drained[2]
    /\ drained = duringScan
    /\ request.event \notin {drained[1], drained[2]}


\* the index holds no document of the file, or the file's mtime is greater
\* than the stored time of a document of the file
StaleOrAbsent(segs, fsys, f) ==
    \/ LiveOfFile(segs, f) = 0
    \/ \E d \in LiveDocs(segs) : d.path.file = f /\ fsys[f].mtime > DocTime(d)

\* C35 as claimed: when the scanner comes to a file that the registry grants
\* it and whose document in the index is as recent as the file, the indexer
\* is not invoked and the index and the tag cache stay as they were: a
\* restart over an unchanged, fully indexed tree writes nothing
C35_ScannerSkipsFresh ==
    [][\A f \in Files :
          (/\ f \notin visited
           /\ visited' = visited \cup {f}
           /\ fs[f].exists
           /\ TryStartGranted(files, RawPath(f), fs[f].mtime)
           /\ ~StaleOrAbsent(segments, fs, f))
             => segments' = segments /\ tagCache' = tagCache]_vars


\* C37 as claimed: when the scanner has come to its first file, the watcher
\* thread has subscribed to the directory
C37_SubscribedBeforeScan ==
    visited # {} => watcherPc \in {"waiting", "drain", "live"}


\* a step of the watcher thread: it moves on, or takes an event from its
\* channel
WatcherStep ==
    \/ watcherPc # "off" /\ watcherPc' # watcherPc
    \/ Len(rx') < Len(rx)

PrecedenceFlags ==
    { \*  --time=7d
      <<" ", "-", "-", "t", "i", "m", "e", "=", "7", "d">>,
      \*  --time=today
      <<" ", "-", "-", "t", "i", "m", "e", "=", "t", "o", "d", "a", "y">>,
      \*  --time=zz
      <<" ", "-", "-", "t", "i", "m", "e", "=", "z", "z">>,
      \*  --after=2024-01-15
      <<" ", "-", "-", "a", "f", "t", "e", "r", "=", "2", "0", "2", "4", "-", "0", "1", "-", "1", "5">>,
      \*  --after=x
      <<" ", "-", "-", "a", "f", "t", "e", "r", "=", "x">>,
      \*  --before=2023-02-01
      <<" ", "-", "-", "b", "e", "f", "o", "r", "e", "=", "2", "0", "2", "3", "-", "0", "2", "-", "0", "1">> }


NextPrecedence ==
    \/ \E flag \in PrecedenceFlags : TypeFlag(flag)
    \/ \E extractor \in KeywordExtractors : Parse(extractor)
    \/ NextQuery

SpecPrecedence == InitParser /\ [][NextPrecedence]_vars

MaxBuffered == 2

\* the steps of a call, in the order of the code: index_file checks that
\* the path exists (193), extracts the text (198-199), stats the file (202),
\* computes the tags (205-209), takes the write guard (223), deletes by term
\* (227), adds (230), commits (231) and drops the guard at the end of the
\* block (232); delete_file takes the guard first (249) and drops it when
\* the function ends (254)
CallSteps_TagsUnderLock(op) ==
    IF op = "index_file"
    THEN <<"exists", "extract", "stat", "lock", "tags", "delete_term",
           "add_document", "commit", "unlock", "return">>
    ELSE <<"lock", "delete_term", "commit", "unlock", "return">>

CallSteps(op) ==
    IF op = "index_file"
    THEN <<"exists", "extract", "stat", "tags", "lock", "delete_term",
           "add_document", "commit", "unlock", "return">>
    ELSE <<"lock", "delete_term", "commit", "unlock", "return">>

\* the step after pc: the next one of the call when pc succeeded; when it
\* failed, `?` leaves the function, and the guard, if the thread has one,
\* is dropped on the way out
NextPc(op, pc, ok, held) ==
    IF ok
    THEN LET steps == CallSteps(op)
             i == CHOOSE k \in 1..Len(steps) : steps[k] = pc
         IN steps[i + 1]
    ELSE IF held THEN "unlock" ELSE "return"

Advanced(t, ok) ==
    LET c == threads[t] IN
    [threads EXCEPT ![t] =
        [c EXCEPT !.pc = NextPc(c.op, c.pc, ok, lock = t),
                  !.ok = c.ok /\ ok,
                  !.done = c.done \cup {c.pc}]]

lockFrame == <<regVars, histVars, now, fs, program, searcher, tagCache, ret,
               cacheVars, queryVars, startVars>>

\* a thread enters index_file(p) or delete_file(p)
EngineCall(t, op, p) ==
    /\ threads[t] = Idle
    /\ threads' = [threads EXCEPT ![t] =
                      [op |-> op, path |-> p, pc |-> CallSteps(op)[1],
                       ok |-> TRUE, done |-> {}]]
    /\ UNCHANGED <<lock, segments, writer, lockFrame>>

\* the steps of index_file on the source file: path.exists(), the text
\* extractor, FileMetadata::from_path and the keyword extractor, whose
\* failure is swallowed by unwrap_or_default (src/engine/core.rs:193-209)
SourceStep(t, ok) ==
    /\ threads[t].pc \in {"exists", "extract", "stat", "tags"}
    /\ threads[t].pc = "exists" => ok = PathExists(fs, threads[t].path)
    /\ threads[t].pc = "tags" => ok
    /\ threads' = Advanced(t, ok)
    /\ UNCHANGED <<lock, segments, writer, lockFrame>>

\* self.writer.write().unwrap() blocks until no thread holds the guard
\* (src/engine/core.rs:223, 249)
AcquireWriter(t) ==
    /\ threads[t].pc = "lock"
    /\ lock = Free
    /\ lock' = t
    /\ threads' = Advanced(t, TRUE)
    /\ UNCHANGED <<segments, writer, lockFrame>>

\* delete_term, add_document and commit on the IndexWriter
\* (src/engine/core.rs:227-231, 250-251); delete_term cannot fail
WriterStep(t, ok) ==
    /\ threads[t].pc \in {"delete_term", "add_document", "commit"}
    /\ threads[t].pc = "delete_term" => ok
    /\ ~ok => Len(writer) <= MaxBuffered
    /\ LET c == threads[t] IN
       CASE c.pc = "delete_term" ->
              /\ writer' = Append(writer, OpDelete(c.path))
              /\ segments' = segments
         [] c.pc = "add_document" ->
              /\ writer' = IF ok THEN Append(writer, OpAdd(EngineDoc(fs, c.path, now)))
                           ELSE writer
              /\ segments' = segments
         [] c.pc = "commit" ->
              /\ writer' = IF ok THEN <<>> ELSE writer
              /\ segments' = IF ok THEN Commit(segments, writer) ELSE segments
    /\ threads' = Advanced(t, ok)
    /\ UNCHANGED <<lock, lockFrame>>

\* the guard goes out of scope (src/engine/core.rs:232, 254, and every `?`
\* inside its scope)
ReleaseWriter(t) ==
    /\ threads[t].pc = "unlock"
    /\ lock' = IF lock = t THEN Free ELSE lock
    /\ threads' = Advanced(t, TRUE)
    /\ UNCHANGED <<segments, writer, lockFrame>>

\* the call returns Ok(()) or the error (src/engine/core.rs:241, 253)
EngineReturn(t) ==
    /\ threads[t].pc = "return"
    /\ threads' = [threads EXCEPT ![t] = Idle]
    /\ UNCHANGED <<lock, segments, writer, lockFrame>>

\* docs/a.txt exists and docs/b.txt does not
InitLock ==
    /\ RegistryNew
    /\ HistInit
    /\ NoCalls
    /\ now = 1
    /\ fs = [f \in Files |-> IF f = "a" THEN FileOf(1, "x") ELSE Absent]
    /\ program = "engine"
    /\ IndexEmpty
    /\ NotStarted
    /\ NoQuery

NextLock ==
    \/ \E t \in EngineThreads, op \in {"index_file", "delete_file"}, f \in Files :
          EngineCall(t, op, CanonPath(f))
    \/ \E t \in EngineThreads, ok \in BOOLEAN : SourceStep(t, ok)
    \/ \E t \in EngineThreads : AcquireWriter(t)
    \/ \E t \in EngineThreads, ok \in BOOLEAN : WriterStep(t, ok)
    \/ \E t \in EngineThreads : ReleaseWriter(t)
    \/ \E t \in EngineThreads : EngineReturn(t)

SpecLock == InitLock /\ [][NextLock]_vars


\* the steps a thread runs between taking the guard and dropping it
LockedSteps == {"delete_term", "add_document", "commit", "unlock"}

\* the thread whose call moves in this step
Steps(t) == threads'[t] # threads[t]

\* C31: in every execution of concurrent index_file and delete_file calls,
\* at most one thread is between taking and dropping the write guard of the
\* writer, and it is the holder; index_file takes the guard only after the
\* text extraction, the stat and the tag computation have finished with
\* success; the pending operations and the segments change only in a step
\* of the holder, which is the delete-by-term, the add or the commit of the
\* document of its call, and a call that finishes with success has run
\* exactly those under the guard; a call that returns, with Ok or with an
\* error, does not hold the guard; and no thread checks, reads or stats the
\* source file or runs the keyword extractor while it holds the guard
C31_WriterLockDiscipline ==
    [][/\ Cardinality({t \in EngineThreads : threads[t].pc \in LockedSteps}) <= 1
       /\ \A t \in EngineThreads :
             LET c == threads[t] IN
             /\ (lock = t) <=> (c.pc \in LockedSteps)
             /\ (lock # t /\ lock' = t)
                   => /\ lock = Free
                      /\ c.pc = "lock"
                      /\ c.ok
                      /\ c.op = "index_file"
                            => c.done = {"exists", "extract", "stat", "tags"}
                      /\ c.op = "delete_file" => c.done = {}
             /\ (Steps(t) /\ <<writer, segments>>' # <<writer, segments>>)
                   => /\ lock = t
                      /\ lock' = t
                      /\ \/ /\ c.pc = "delete_term"
                            /\ writer' = Append(writer, OpDelete(c.path))
                            /\ segments' = segments
                         \/ /\ c.pc = "add_document"
                            /\ c.op = "index_file"
                            /\ \E d \in {EngineDoc(fs, c.path, now)} :
                                  /\ d.path = c.path
                                  /\ writer' = Append(writer, OpAdd(d))
                            /\ segments' = segments
                         \/ /\ c.pc = "commit"
                            /\ writer' = <<>>
                            /\ segments' = Commit(segments, writer)
             /\ (lock = t /\ lock' # t)
                   => /\ lock' = Free
                      /\ c.pc = "unlock"
                      /\ c.ok => c.done \ {"exists", "extract", "stat", "tags", "lock"}
                                   = IF c.op = "index_file"
                                     THEN {"delete_term", "add_document", "commit"}
                                     ELSE {"delete_term", "commit"}
             /\ (c.pc = "return" /\ threads'[t] = Idle)
                   => lock # t /\ lock' # t
             /\ (Steps(t) /\ c.pc \in {"exists", "extract", "stat", "tags"})
                   => lock # t /\ lock' # t
       /\ <<writer, segments>>' # <<writer, segments>>
             => \E t \in EngineThreads : Steps(t)
      ]_vars

\* one thread is about to return the error of add_document, its guard
\* dropped, while the other thread, which took the guard after it, is about
\* to commit
C31_Witness ==
    /\ threads["e1"].pc = "return"
    /\ ~threads["e1"].ok
    /\ "add_document" \in threads["e1"].done
    /\ "unlock" \in threads["e1"].done
    /\ threads["e2"].pc = "commit"
    /\ threads["e2"].op = "index_file"
    /\ lock = "e2"
    /\ Len(writer) = 3
====
